---- MODULE Spec2Model ----
(***************************************************************************)
(* "Raw First, Summarize Later": the durable queue tables                  *)
(* (RawToolEventStore, RawSummaryRequestStore) and the background workers   *)
(* that drain them (RawEventSummarizer, RawSummarySummarizer).              *)
(*                                                                          *)
(* A table is a function from row id to row.  A store method is an operator *)
(* from table to table, translated from its SQL.  A worker instance is      *)
(* JavaScript on one event loop: a tick runs without interruption up to its *)
(* next `await` of the LLM call, so one action models the code between two  *)
(* awaits.  Several worker instances (for example the service restarted     *)
(* while the old process still runs) share one database file.               *)
(*                                                                          *)
(* Time is counted in units of the stall threshold (one unit = 300000 ms).  *)
(***************************************************************************)
EXTENDS Integers, Sequences, FiniteSets, TLC

\* ---------------------------------------------------------------- bounds
MaxRows == 2
MaxTime == 2
MaxObservations == 2
\* Rows of the table in the concurrent-claim scenario.
MaxClaimRows == 4
\* maxRetries the stores are constructed with where several workers share a
\* table (any value >= 1 can be configured).
RetryBudget == 2
\* Child processes spawned over a run.
MaxProcs == 3
\* Summary requests where both workers run side by side.
MaxRequests == 1
\* Raw events in the specifications that state fairness.
MaxFairRows == 1

\* Longest string given as a tool_response.
MaxLen == 3

\* ------------------------------------------------------- program constants
\* constructor(db, maxRetries = 3, maxResponseLength = 50000), scaled.
maxResponseLength == 2
\* constructor(db, maxRetries = 3)
DefaultMaxRetries == 3
\* RawEventSummarizer / RawSummarySummarizer: batchSize (10 and 5 in the
\* source, scaled to the table size of the model).
batchSize == 2
\* releaseStuckEvents(olderThanMs = 300000): one time unit.
DefaultOlderThanMs == 1
\* completedRetentionMs = 60 * 60 * 1000, scaled to the model clock.
completedRetentionMs == 1
\* cleanupEveryNBatches = 100, scaled.
cleanupEveryNBatches == 2
\* staleCheckEveryNBatches = 30, scaled.
staleCheckEveryNBatches == 2
\* SQL NULL / JavaScript null.
NULL == -1

Sessions == {1, 2}
Workers == {"w1", "w2"}
SummaryWorkers == {"s1"}
AllWorkers == Workers \cup SummaryWorkers
LookupOutcomes == {"ok", "missing", "nomem"}

Min(a, b) == IF a < b THEN a ELSE b

VARIABLES
    events,        \* raw_tool_events: row id -> row
    nextId,        \* next AUTOINCREMENT id of the table
    now,           \* Date.now()
    interval,      \* worker -> BOOLEAN: this.interval !== null
    isProcessing,  \* worker -> BOOLEAN: this.isProcessing
    batchCounter,  \* worker -> this.batchCounter modulo cleanupEveryNBatches
    work,          \* worker -> sub-batches still held by the running tick
    maxRetries,    \* this.maxRetries of the store, set by its constructor
    stored,        \* history: row id -> successful storeObservations calls (2 = several)
    failTicks,     \* history: row id -> markFailed calls issued for the row by ticks
    requests,      \* raw_summary_requests: row id -> row
    reqNextId,     \* next AUTOINCREMENT id of raw_summary_requests
    procs,         \* pid -> the spawned child: OS state and its ChildProcess fields
    trackedProcesses, \* ProcessTracker.trackedProcesses: sessionDbId -> pid, or NULL
    term,          \* the terminateProcess call in progress, or its result
    scan           \* the OrphanProcessScanner scan in progress, or its result

vars == <<events, nextId, now, maxRetries, interval, isProcessing, batchCounter, work, stored, failTicks, requests, reqNextId, procs, trackedProcesses, term, scan>>

\* ------------------------------------------------------- RawToolEventStore

\* A row inserted without the column defaults.
\* SQL NULL in a TEXT column, and a text.
NoResponse == [null |-> TRUE, str |-> <<>>]

Text(x) == [null |-> FALSE, str |-> x]

\* The characters strings are made of, and the strings of up to n of them.
Chars == {"a", "b"}

Strings(n) == UNION {[1..k -> Chars] : k \in 0..n}

\* data.tool_response (any): a string, false, 0, true, an empty object, or
\* not given.
NotGiven == [type |-> "undefined", str |-> <<>>]

ToolResponses == {[type |-> "string", str |-> x] : x \in Strings(MaxLen)} \cup {[type |-> t, str |-> <<>>] : t \in {"false", "zero", "true", "object"}} \cup {NotGiven}

\* typeof data.tool_response === 'string' ? data.tool_response : JSON.stringify(data.tool_response)
responseStr(d) == CASE d.type = "string" -> d.str [] d.type = "false" -> <<"f", "a", "l", "s", "e">> [] d.type = "zero" -> <<"0">> [] d.type = "true" -> <<"t", "r", "u", "e">> [] d.type = "object" -> <<"{", "}">> [] OTHER -> <<>>

\* if (data.tool_response): what JavaScript takes for true.
Truthy(d) == CASE d.type = "string" -> d.str # <<>> [] d.type \in {"true", "object"} -> TRUE [] OTHER -> FALSE

\* '... [truncated]'
TruncationMarker == <<".", ".", ".", " ", "[", "t", "r", "u", "n", "c", "a", "t", "e", "d", "]">>

\* insertRaw: the value bound to the tool_response column.
truncatedResponse(d, cap) == IF ~Truthy(d) THEN NoResponse ELSE IF Len(responseStr(d)) > cap THEN Text(SubSeq(responseStr(d), 1, cap) \o TruncationMarker) ELSE Text(responseStr(d))

NewRowNoDefaults(s, t) == [session_db_id |-> s, status |-> "summarizing", retry_count |-> 1, created_at_epoch |-> t, summarized_at_epoch |-> NULL, observation_id |-> NULL, tool_response |-> NoResponse, given |-> NotGiven]

\* A row as insertRaw writes it for a call without tool_response; given is
\* the data.tool_response of the call, kept beside the row.
NewRow(s, t) == [session_db_id |-> s, status |-> "pending", retry_count |-> 0, created_at_epoch |-> t, summarized_at_epoch |-> NULL, observation_id |-> NULL, tool_response |-> NoResponse, given |-> NotGiven]

InsertRaw(tbl, id, s, t) == [i \in DOMAIN tbl \cup {id} |-> IF i = id THEN NewRow(s, t) ELSE tbl[i]]

\* ORDER BY created_at_epoch DESC.
OlderNewestFirst(tbl, a, b) == tbl[a].created_at_epoch > tbl[b].created_at_epoch \/ (tbl[a].created_at_epoch = tbl[b].created_at_epoch /\ a > b)

\* ORDER BY created_at_epoch ASC; rows of equal timestamp come in rowid order
\* (the order of the (status, created_at_epoch) index).
Older(tbl, a, b) == tbl[a].created_at_epoch < tbl[b].created_at_epoch \/ (tbl[a].created_at_epoch = tbl[b].created_at_epoch /\ a < b)

RECURSIVE SortIds(_, _)
SortIds(tbl, S) == IF S = {} THEN <<>> ELSE LET m == CHOOSE x \in S : \A y \in S \ {x} : Older(tbl, x, y) IN <<m>> \o SortIds(tbl, S \ {m})

PendingIds(tbl) == {i \in DOMAIN tbl : tbl[i].status = "pending"}

\* SELECT ... WHERE status = 'pending' ORDER BY created_at_epoch ASC LIMIT ?
SelectBatch(tbl, lim) == LET s == SortIds(tbl, PendingIds(tbl)) IN SubSeq(s, 1, Min(lim, Len(s)))

Range(seq) == {seq[i] : i \in 1..Len(seq)}

\* The claim without its UPDATE: the rows are selected and left pending.
ClaimUpdateMissing(tbl, ids) == tbl

\* UPDATE ... SET status = 'summarizing' WHERE id IN (ids)
ClaimUpdate(tbl, ids) == [i \in DOMAIN tbl |-> IF i \in ids THEN [tbl[i] EXCEPT !.status = "summarizing"] ELSE tbl[i]]

markCompleted(tbl, id, observationId, t) == [i \in DOMAIN tbl |-> IF i = id THEN [tbl[i] EXCEPT !.status = "completed", !.observation_id = observationId, !.summarized_at_epoch = t] ELSE tbl[i]]

\* markFailed with the budget test off by one (> for >=).
markFailedOffByOne(tbl, id, max) ==
    LET currentRetries == IF id \in DOMAIN tbl THEN tbl[id].retry_count ELSE 0
        newRetryCount == currentRetries + 1
    IN  [i \in DOMAIN tbl |->
            IF i = id
            THEN IF newRetryCount > max
                 THEN [tbl[i] EXCEPT !.status = "failed", !.retry_count = newRetryCount]
                 ELSE [tbl[i] EXCEPT !.status = "pending", !.retry_count = newRetryCount]
            ELSE tbl[i]]

markFailed(tbl, id, max) ==
    LET currentRetries == IF id \in DOMAIN tbl THEN tbl[id].retry_count ELSE 0
        newRetryCount == currentRetries + 1
    IN  [i \in DOMAIN tbl |->
            IF i = id
            THEN IF newRetryCount >= max
                 THEN [tbl[i] EXCEPT !.status = "failed", !.retry_count = newRetryCount]
                 ELSE [tbl[i] EXCEPT !.status = "pending", !.retry_count = newRetryCount]
            ELSE tbl[i]]

\* The stall test with <= for <.
StuckIdsInclusive(tbl, t, olderThanMs) == {i \in DOMAIN tbl : tbl[i].status = "summarizing" /\ tbl[i].created_at_epoch <= t - olderThanMs}

StuckIds(tbl, t, olderThanMs) == {i \in DOMAIN tbl : tbl[i].status = "summarizing" /\ tbl[i].created_at_epoch < t - olderThanMs}

releaseStuckEvents(tbl, t, olderThanMs) == [i \in DOMAIN tbl |-> IF i \in StuckIds(tbl, t, olderThanMs) THEN [tbl[i] EXCEPT !.status = "pending"] ELSE tbl[i]]

\* return result.changes
releaseStuckEventsChanges(tbl, t, olderThanMs) == Cardinality(StuckIds(tbl, t, olderThanMs))

\* The DELETE without its status test.
DeletableIdsAnyStatus(tbl, olderThanEpoch) == {j \in DOMAIN tbl : tbl[j].summarized_at_epoch # NULL /\ tbl[j].summarized_at_epoch < olderThanEpoch}

\* Rows the DELETE matches (a NULL summarized_at_epoch compares as unknown).
DeletableIds(tbl, olderThanEpoch) == {j \in DOMAIN tbl : tbl[j].status = "completed" /\ tbl[j].summarized_at_epoch # NULL /\ tbl[j].summarized_at_epoch < olderThanEpoch}

\* A DELETE that also takes the failed rows.
deleteCompletedOrFailed(tbl, olderThanEpoch) == [i \in {j \in DOMAIN tbl \ DeletableIds(tbl, olderThanEpoch) : tbl[j].status # "failed"} |-> tbl[i]]

deleteCompleted(tbl, olderThanEpoch) == [i \in DOMAIN tbl \ DeletableIds(tbl, olderThanEpoch) |-> tbl[i]]

\* return result.changes
deleteCompletedChanges(tbl, olderThanEpoch) == Cardinality(DeletableIds(tbl, olderThanEpoch))

\* ------------------------------------------------------ RawEventSummarizer

\* markFailed for every event of a sub-batch (the catch block).
RECURSIVE FailAll(_, _, _)
FailAll(tbl, sub, max) == IF sub = <<>> THEN tbl ELSE FailAll(markFailed(tbl, Head(sub), max), Tail(sub), max)

\* The index used without Math.min: undefined || 0 past the end of the list.
ObsIdForNoClamp(i, observationIds) == IF i <= Len(observationIds) THEN observationIds[i] ELSE 0

\* result.observationIds[Math.min(i, result.observationIds.length - 1)] || 0,
\* for the event at position i (counted from 1 here).
ObsIdFor(i, observationIds) == IF Len(observationIds) = 0 THEN 0 ELSE observationIds[Min(i, Len(observationIds))]

\* markCompleted for the events of a sub-batch from position i on.
RECURSIVE CompleteFrom(_, _, _, _, _)
CompleteFrom(tbl, sub, i, observationIds, t) == IF i > Len(sub) THEN tbl ELSE CompleteFrom(markCompleted(tbl, sub[i], ObsIdFor(i, observationIds), t), sub, i + 1, observationIds, t)

\* The events of a batch that belong to session s, in batch order.
RECURSIVE SubBatch(_, _, _)
SubBatch(tbl, batch, s) == IF batch = <<>> THEN <<>> ELSE (IF tbl[Head(batch)].session_db_id = s THEN <<Head(batch)>> ELSE <<>>) \o SubBatch(tbl, Tail(batch), s)

\* Object.entries of the record built by reduce: integer-like keys come in
\* ascending numeric order.
RECURSIVE GroupKeys(_, _, _)
GroupKeys(tbl, batch, keys) == IF keys = {} THEN <<>> ELSE LET k == CHOOSE x \in keys : \A y \in keys : x <= y IN <<SubBatch(tbl, batch, k)>> \o GroupKeys(tbl, batch, keys \ {k})

\* groupBySession putting each event at the front of its group.
groupBySessionUnshift(tbl, batch) == LET g == GroupKeys(tbl, batch, {tbl[id].session_db_id : id \in Range(batch)}) IN [k \in 1..Len(g) |-> [p \in 1..Len(g[k]) |-> g[k][Len(g[k]) + 1 - p]]]

\* events.reduce((acc, event) => { (acc[key] = acc[key] || []).push(event) }, {})
groupBySession(tbl, batch) == GroupKeys(tbl, batch, {tbl[id].session_db_id : id \in Range(batch)})

\* The loop over the sub-batches up to the next await of callLLM: a sub-batch
\* whose session record is missing or has no memory_session_id throws before
\* the call and is failed in the catch block; lk[n] is what getSessionById
\* answers for the sub-batch met when n sub-batches are left.
\* The loop without the test of the session record.
summarizeUntilAwaitNoLookup(tbl, subs, lk, max) == [tbl |-> tbl, work |-> subs]

RECURSIVE summarizeUntilAwait(_, _, _, _)
summarizeUntilAwait(tbl, subs, lk, max) == IF subs = <<>> THEN [tbl |-> tbl, work |-> <<>>] ELSE IF lk[Len(subs)] = "ok" THEN [tbl |-> tbl, work |-> subs] ELSE summarizeUntilAwait(FailAll(tbl, Head(subs), max), Tail(subs), lk, max)

\* The cleanup run by every tick.
cleanupCompletedEventsEveryTick(tbl, counter, t) == deleteCompleted(tbl, t - completedRetentionMs)

\* cleanupCompletedEvents on every cleanupEveryNBatches-th tick.
cleanupCompletedEvents(tbl, counter, t) == IF counter % cleanupEveryNBatches = 0 THEN deleteCompleted(tbl, t - completedRetentionMs) ELSE tbl

claimBatchForSummarization(tbl, lim) == [batch |-> SelectBatch(tbl, lim), tbl |-> ClaimUpdate(tbl, Range(SelectBatch(tbl, lim)))]

TypeOK ==
    /\ nextId \in Nat \ {0}
    /\ DOMAIN events \subseteq 1..(nextId - 1)
    /\ \A i \in DOMAIN events :
        /\ events[i].session_db_id \in Sessions
        /\ events[i].status \in {"pending", "summarizing", "completed", "failed"}
        /\ events[i].retry_count \in Nat
        /\ events[i].created_at_epoch \in 0..MaxTime
    /\ now \in 0..MaxTime
    /\ maxRetries \in Nat
    /\ interval \in [AllWorkers -> BOOLEAN]
    /\ isProcessing \in [AllWorkers -> BOOLEAN]
    /\ batchCounter \in [AllWorkers -> Nat]
    /\ DOMAIN work = AllWorkers
    /\ DOMAIN stored = 1..(nextId - 1)
    /\ DOMAIN failTicks = 1..(nextId - 1)
    /\ reqNextId \in Nat \ {0}
    /\ trackedProcesses \in [Sessions -> DOMAIN procs \cup {NULL}]
    /\ term.pc \in {"idle", "awaitGraceful", "awaitForce", "done"}
    /\ \A pid \in DOMAIN procs : procs[pid].session \in Sessions /\ procs[pid].alive \in BOOLEAN
    /\ scan.pc \in {"idle", "ps", "kill", "afterTerm", "verify", "done"}
    /\ DOMAIN requests = 1..(reqNextId - 1)
    /\ \A i \in DOMAIN requests :
        /\ requests[i].session_db_id \in Sessions
        /\ requests[i].status \in {"pending", "summarizing", "completed", "failed"}
        /\ requests[i].retry_count \in Nat
        /\ requests[i].created_at_epoch \in 0..MaxTime

\* No terminateProcess call has been made.
NoCall == [pc |-> "idle", session |-> NULL, pid |-> NULL, resolved |-> "none", sentTerm |-> FALSE, sentKill |-> FALSE, ret |-> FALSE]

\* No scan has been made: the OrphanScanResult and the scan's local variables.
NoScan == [pc |-> "idle", enumerated |-> FALSE, trackedPids |-> {}, foundCount |-> 0, pids |-> <<>>, queue |-> <<>>, signalled |-> {}, sentKill |-> {}, killedCount |-> 0, failedCount |-> 0]

\* The state after construction of the stores (with retry budget max) and of
\* the workers, on an empty table.
Constructed(max) ==
    /\ events = <<>>
    /\ nextId = 1
    /\ now = 0
    /\ maxRetries = max
    /\ interval = [w \in AllWorkers |-> FALSE]
    /\ isProcessing = [w \in AllWorkers |-> FALSE]
    /\ batchCounter = [w \in AllWorkers |-> 0]
    /\ work = [w \in AllWorkers |-> <<>>]
    /\ stored = <<>>
    /\ failTicks = <<>>
    /\ requests = <<>>
    /\ reqNextId = 1
    /\ procs = <<>>
    /\ trackedProcesses = [s \in Sessions |-> NULL]
    /\ term = NoCall
    /\ scan = NoScan

Init == Constructed(RetryBudget)

\* POST /api/sessions/observations -> RawToolEventStore.insertRaw
InsertEventUpTo(s, cap) ==
    /\ nextId <= cap
    /\ events' = InsertRaw(events, nextId, s, now)
    /\ nextId' = nextId + 1
    /\ stored' = [i \in 1..nextId |-> IF i = nextId THEN 0 ELSE stored[i]]
    /\ failTicks' = [i \in 1..nextId |-> IF i = nextId THEN 0 ELSE failTicks[i]]
    /\ UNCHANGED <<now, maxRetries, interval, isProcessing, batchCounter, work, requests, reqNextId, procs, trackedProcesses, term, scan>>

InsertEvent(s) == InsertEventUpTo(s, MaxRows)

AdvanceClock ==
    /\ now < MaxTime
    /\ now' = now + 1
    /\ UNCHANGED <<events, nextId, maxRetries, interval, isProcessing, batchCounter, work, stored, failTicks, requests, reqNextId, procs, trackedProcesses, term, scan>>

\* RawEventSummarizer.start
start(w) ==
    /\ IF interval[w]
       THEN UNCHANGED <<events, interval>>
       ELSE /\ events' = releaseStuckEvents(events, now, DefaultOlderThanMs)
            /\ interval' = [interval EXCEPT ![w] = TRUE]
    /\ UNCHANGED <<nextId, now, maxRetries, isProcessing, batchCounter, work, stored, failTicks, requests, reqNextId, procs, trackedProcesses, term, scan>>

\* A stop that also drops the tick in progress.
stopAbortsTick(w) ==
    /\ interval' = [interval EXCEPT ![w] = FALSE]
    /\ isProcessing' = [isProcessing EXCEPT ![w] = FALSE]
    /\ work' = [work EXCEPT ![w] = <<>>]
    /\ UNCHANGED <<events, nextId, now, maxRetries, batchCounter, stored, failTicks, requests, reqNextId, procs, trackedProcesses, term, scan>>

\* RawEventSummarizer.stop
stop(w) ==
    /\ interval' = [interval EXCEPT ![w] = FALSE]
    /\ UNCHANGED <<events, nextId, now, maxRetries, isProcessing, batchCounter, work, stored, failTicks, requests, reqNextId, procs, trackedProcesses, term, scan>>

\* The batch a tick of worker w claims now: cleanup on every
\* cleanupEveryNBatches-th tick, then claimBatchForSummarization.
TickClaim(w) == claimBatchForSummarization(cleanupCompletedEvents(events, batchCounter[w] + 1, now), batchSize)

\* What getSessionById may answer for the sub-batches of a batch.
Lookups(subs) == [1..Len(subs) -> LookupOutcomes]

\* The events of the sub-batches of subs that were failed before an await:
\* those no longer in the work left.
SkippedIds(subs, left) == UNION {Range(subs[k]) : k \in 1..(Len(subs) - Len(left))}

\* The body of a tick up to its first await (or its end).
tickBody(w) ==
    LET claim == TickClaim(w)
        subs == groupBySession(claim.tbl, claim.batch)
    IN  \E lk \in Lookups(subs) :
           LET r == summarizeUntilAwait(claim.tbl, subs, lk, maxRetries)
           IN  /\ batchCounter' = [batchCounter EXCEPT ![w] = (batchCounter[w] + 1) % cleanupEveryNBatches]
               /\ events' = r.tbl
               /\ work' = [work EXCEPT ![w] = r.work]
               /\ isProcessing' = [isProcessing EXCEPT ![w] = (r.work # <<>>)]
               /\ failTicks' = [i \in DOMAIN failTicks |-> IF i \in SkippedIds(subs, r.work) THEN failTicks[i] + 1 ELSE failTicks[i]]
               /\ UNCHANGED <<nextId, now, maxRetries, interval, stored, requests, reqNextId, procs, trackedProcesses, term, scan>>

\* processBatch without its first line.
processBatchUnguarded(w) == tickBody(w)

\* RawEventSummarizer.processBatch up to its first await (or its end).
processBatch(w) == IF isProcessing[w] THEN UNCHANGED vars ELSE tickBody(w)

\* The interval timer fires.
TimerTick(w) ==
    /\ interval[w]
    /\ processBatch(w)

\* forceProcess()
forceProcess(w) == processBatch(w)

\* What one call of the provider can meet: no API key configured, fetch
\* rejecting (network), the abort timer firing (timeout), a status that is not
\* 2xx, a 2xx body without message content, or a 2xx body whose content holds
\* some number of observation blocks.
Responses == {[net |-> k, blocks |-> 0] : k \in {"authMissing", "network", "timeout", "status", "none"}} \cup {[net |-> "content", blocks |-> b] : b \in 0..MaxObservations}

\* The empty string.
NoText == [text |-> FALSE, blocks |-> 0]

\* callOpenRouter without the test of response.ok: the body of an error
\* response has no message content.
callOpenRouterIgnoresStatus(r) == IF r.net \in {"authMissing", "network", "timeout"} THEN [threw |-> TRUE, content |-> NoText] ELSE [threw |-> FALSE, content |-> IF r.net = "content" THEN [text |-> TRUE, blocks |-> r.blocks] ELSE NoText]

\* callOpenRouter throwing on a body without content.
callOpenRouterRejectsEmpty(r) == IF r.net \in {"authMissing", "network", "timeout", "status", "none"} THEN [threw |-> TRUE, content |-> NoText] ELSE [threw |-> FALSE, content |-> [text |-> TRUE, blocks |-> r.blocks]]

\* callOpenRouter / callGemini: throw, or return
\* data.choices?.[0]?.message?.content || ''.
callOpenRouter(r) == IF r.net \in {"authMissing", "network", "timeout", "status"} THEN [threw |-> TRUE, content |-> NoText] ELSE [threw |-> FALSE, content |-> IF r.net = "content" THEN [text |-> TRUE, blocks |-> r.blocks] ELSE NoText]

\* parseObservations: the observations found in the text, none in the empty string.
parseObservations(content) == IF content.text THEN content.blocks ELSE 0

\* What a response and the SessionStore (store = "ok" or "throws") amount to
\* in summarizeSessionEvents.
Outcome(r, store) ==
    LET c == callOpenRouter(r)
    IN  IF c.threw THEN [kind |-> "error", n |-> 0]
        ELSE IF parseObservations(c.content) = 0 THEN [kind |-> "empty", n |-> 0]
        ELSE IF store = "throws" THEN [kind |-> "storeThrows", n |-> 0]
        ELSE [kind |-> "stored", n |-> parseObservations(c.content)]

\* What one settled callLLM and the steps after it can amount to: a rejected
\* call, a response parsing to no observation, a storeObservations that throws,
\* or n observations stored.
LLMResults == {Outcome(r, store) : r \in Responses, store \in {"ok", "throws"}}

StoreCalled(res) == res.kind = "stored"

MarksFailed(res) == res.kind \in {"error", "storeThrows"}

\* summarizeSessionEvents returning on an empty parse without marking.
summarizeSessionEventsEmptyReturns(tbl, sub, res, max, t) ==
    IF res.kind \in {"error", "storeThrows"} THEN FailAll(tbl, sub, max)
    ELSE IF res.kind = "empty" THEN tbl
    ELSE CompleteFrom(tbl, sub, 1, [k \in 1..res.n |-> k], t)

\* summarizeSessionEvents throwing on an empty parse.
summarizeSessionEventsEmptyThrows(tbl, sub, res, max, t) ==
    IF res.kind \in {"error", "empty", "storeThrows"} THEN FailAll(tbl, sub, max)
    ELSE CompleteFrom(tbl, sub, 1, [k \in 1..res.n |-> k], t)

\* The rest of summarizeSessionEvents after callLLM settles, for sub-batch sub;
\* the n observation ids the SessionStore returns are written 1..n.
summarizeSessionEvents(tbl, sub, res, max, t) ==
    IF res.kind = "error" THEN FailAll(tbl, sub, max)
    ELSE IF res.kind = "empty" THEN CompleteFrom(tbl, sub, 1, <<>>, t)
    ELSE IF res.kind = "storeThrows" THEN FailAll(tbl, sub, max)
    ELSE CompleteFrom(tbl, sub, 1, [k \in 1..res.n |-> k], t)

\* summarizeSessionEvents without its try / catch: an error ends the tick in
\* processBatch's catch block.
LLMReturnAbortsTick(w, res) ==
    /\ work[w] # <<>>
    /\ IF MarksFailed(res)
       THEN /\ work' = [work EXCEPT ![w] = <<>>]
            /\ isProcessing' = [isProcessing EXCEPT ![w] = FALSE]
            /\ UNCHANGED <<events, stored, failTicks>>
       ELSE \E lk \in Lookups(Tail(work[w])) :
            LET sub == Head(work[w])
                t1 == summarizeSessionEvents(events, sub, res, maxRetries, now)
                r == summarizeUntilAwait(t1, Tail(work[w]), lk, maxRetries)
            IN  /\ events' = r.tbl
                /\ work' = [work EXCEPT ![w] = r.work]
                /\ isProcessing' = [isProcessing EXCEPT ![w] = (r.work # <<>>)]
                /\ stored' = [i \in DOMAIN stored |-> IF StoreCalled(res) /\ i \in Range(sub) THEN Min(stored[i] + 1, 2) ELSE stored[i]]
                /\ failTicks' = [i \in DOMAIN failTicks |-> IF i \in SkippedIds(Tail(work[w]), r.work) THEN failTicks[i] + 1 ELSE failTicks[i]]
    /\ UNCHANGED <<nextId, now, maxRetries, interval, batchCounter, requests, reqNextId, procs, trackedProcesses, term, scan>>

\* The awaited callLLM of the sub-batch at the head settles; the loop goes on
\* to the next await, or the tick ends.
LLMReturn(w, res) ==
    /\ work[w] # <<>>
    /\ \E lk \in Lookups(Tail(work[w])) :
       LET sub == Head(work[w])
           t1 == summarizeSessionEvents(events, sub, res, maxRetries, now)
           r == summarizeUntilAwait(t1, Tail(work[w]), lk, maxRetries)
       IN  /\ events' = r.tbl
           /\ work' = [work EXCEPT ![w] = r.work]
           /\ isProcessing' = [isProcessing EXCEPT ![w] = (r.work # <<>>)]
           /\ stored' = [i \in DOMAIN stored |-> IF StoreCalled(res) /\ i \in Range(sub) THEN Min(stored[i] + 1, 2) ELSE stored[i]]
           /\ failTicks' = [i \in DOMAIN failTicks |-> IF (MarksFailed(res) /\ i \in Range(sub)) \/ i \in SkippedIds(Tail(work[w]), r.work) THEN failTicks[i] + 1 ELSE failTicks[i]]
    /\ UNCHANGED <<nextId, now, maxRetries, interval, batchCounter, requests, reqNextId, procs, trackedProcesses, term, scan>>

\* The worker process is killed: its memory is lost, the table is not.
Kill(w) ==
    /\ interval' = [interval EXCEPT ![w] = FALSE]
    /\ isProcessing' = [isProcessing EXCEPT ![w] = FALSE]
    /\ batchCounter' = [batchCounter EXCEPT ![w] = 0]
    /\ work' = [work EXCEPT ![w] = <<>>]
    /\ UNCHANGED <<events, nextId, now, maxRetries, stored, failTicks, requests, reqNextId, procs, trackedProcesses, term, scan>>

\* ------------------------------------------------------------- properties

\* The rows a worker's running tick still holds.
HeldIds(w) == UNION {Range(work[w][k]) : k \in 1..Len(work[w])}

\* A step in which worker w starts a tick and claims a batch.
ClaimStepBy(w) == ~isProcessing[w] /\ batchCounter'[w] # batchCounter[w] /\ events' # events

\* Row i is claimed, and then failed before any await, within this one step.
ClaimedAndFailedNow(i) == \E w \in Workers : ClaimStepBy(w) /\ i \in Range(TickClaim(w).batch) /\ events[i].status = "pending" /\ events'[i].status \in {"pending", "failed"}

\* The status changes the lifecycle allows.
AllowedStep(a, b) == a = b \/ (a = "pending" /\ b = "summarizing") \/ (a = "summarizing" /\ b \in {"pending", "completed", "failed"})

\* C2: for every row the status values observed follow
\* pending (-> summarizing -> pending)* -> summarizing -> completed | failed,
\* and retry_count never decreases.
C2_StatusSequence == [][\A i \in DOMAIN events \cap DOMAIN events' : /\ (AllowedStep(events[i].status, events'[i].status) \/ ClaimedAndFailedNow(i)) /\ events'[i].retry_count >= events[i].retry_count]_vars

\* C3: a row whose status is failed has retry_count = MAX_RETRIES exactly.
C3_FailedAtBudget == \A i \in DOMAIN events : events[i].status = "failed" => events[i].retry_count = maxRetries

\* C4: retry_count <= MAX_RETRIES always; retry_count changes only by a
\* markFailed of a row in summarizing, by one; and a failure whose new count
\* reaches MAX_RETRIES lands in failed, any other in pending.
C4_RetryStep == \A i \in DOMAIN events \cap DOMAIN events' : events'[i].retry_count # events[i].retry_count => /\ events'[i].retry_count = events[i].retry_count + 1 /\ (events[i].status = "summarizing" \/ ClaimedAndFailedNow(i)) /\ (events'[i].retry_count >= maxRetries => events'[i].status = "failed") /\ (events'[i].retry_count < maxRetries => events'[i].status = "pending")

C4_RetryBudget == [](\A i \in DOMAIN events : events[i].retry_count <= maxRetries) /\ [][C4_RetryStep]_vars

\* C5: a successful insertRaw adds exactly one row, under a fresh id, pending
\* with retry_count 0 and created_at_epoch = now, and changes no other row.
C5_InsertStep == nextId' # nextId => /\ nextId \notin DOMAIN events /\ DOMAIN events' = DOMAIN events \cup {nextId} /\ events'[nextId].status = "pending" /\ events'[nextId].retry_count = 0 /\ events'[nextId].created_at_epoch = now /\ \A i \in DOMAIN events : events'[i] = events[i]

C5_InsertAddsOnePendingRow == [][C5_InsertStep]_vars

\* C5 witness: row 2 was inserted while a tick that claimed row 1 waits on the LLM.
C5_Witness == \E w \in Workers : /\ HeldIds(w) = {1} /\ 2 \in DOMAIN events /\ events[2].status = "pending" /\ events[2].retry_count = 0 /\ events[1].status = "summarizing" /\ events[1].retry_count = 0

\* C7: storeObservations succeeds at most once for any raw event.
C7_StoredAtMostOnce == \A i \in DOMAIN stored : stored[i] <= 1

\* C8: a completed row never becomes pending or summarizing again.
C8_CompletedStays == [][\A i \in DOMAIN events \cap DOMAIN events' : events[i].status = "completed" => events'[i].status = "completed"]_vars

\* C9: with MAX_RETRIES = 3 and every tick failing, the row is pending with
\* retry_count k after its k-th failed tick for k = 1, 2, failed with
\* retry_count 3 after the third, and no later tick holds or fails it.
C9_RetryBudgetScenario == maxRetries = 3 => \A i \in DOMAIN events : events[i].status # "completed" => /\ failTicks[i] <= 3 /\ events[i].retry_count = failTicks[i] /\ (failTicks[i] < 3 => events[i].status \in {"pending", "summarizing"}) /\ (failTicks[i] = 3 => events[i].status = "failed" /\ \A w \in Workers : i \notin HeldIds(w))

\* C9 witness: a row failed by three ticks, the worker idle afterwards.
C9_Witness == maxRetries = 3 /\ \E i \in DOMAIN events : failTicks[i] = 3 /\ events[i].status = "failed" /\ events[i].retry_count = 3 /\ ~isProcessing["w1"]

\* C10: when start() runs (the timer gets set), every row in summarizing is
\* released whatever its age: afterwards no row created before now is in
\* summarizing.
C10_StartReleasesAll == [][\A w \in Workers : (~interval[w] /\ interval'[w]) => \A i \in DOMAIN events' : events'[i].status = "summarizing" => events'[i].created_at_epoch >= now]_vars

Next ==
    \/ InsertEvent(1)
    \/ AdvanceClock
    \/ \E w \in Workers : start(w)
    \/ \E w \in Workers : stop(w)
    \/ \E w \in Workers : TimerTick(w)
    \/ \E w \in Workers : forceProcess(w)
    \/ \E w \in Workers, res \in LLMResults : LLMReturn(w, res)
    \/ \E w \in Workers : Kill(w)

Spec == Init /\ [][Next]_vars

\* One worker instance, events of two sessions.
NextTick ==
    \/ \E s \in Sessions : InsertEvent(s)
    \/ AdvanceClock
    \/ start("w1")
    \/ stop("w1")
    \/ TimerTick("w1")
    \/ forceProcess("w1")
    \/ \E res \in LLMResults : LLMReturn("w1", res)
    \/ Kill("w1")

InitTick == Constructed(DefaultMaxRetries)

SpecTick == InitTick /\ [][NextTick]_vars

\* ------------------------------------------- two concurrent claim calls

\* One caller's claimBatchForSummarization(batchSize), as one transaction.
ClaimCall(w) ==
    /\ ~isProcessing[w]
    /\ LET c == claimBatchForSummarization(events, batchSize)
       IN  /\ events' = c.tbl
           /\ work' = [work EXCEPT ![w] = IF c.batch = <<>> THEN <<>> ELSE <<c.batch>>]
    /\ isProcessing' = [isProcessing EXCEPT ![w] = TRUE]
    /\ UNCHANGED <<nextId, now, maxRetries, interval, batchCounter, stored, failTicks, requests, reqNextId, procs, trackedProcesses, term, scan>>

\* Rows are written until the first of the concurrent calls commits.
InsertBeforeClaims(s) == (\A w \in Workers : ~isProcessing[w]) /\ InsertEventUpTo(s, MaxClaimRows)

NextClaim ==
    \/ \E s \in Sessions : InsertBeforeClaims(s)
    \/ AdvanceClock
    \/ \E w \in Workers : ClaimCall(w)

SpecClaim == Init /\ [][NextClaim]_vars

\* The rows returned to either caller.
ClaimedUnion == HeldIds("w1") \cup HeldIds("w2")

NewRequest(s, t) == [session_db_id |-> s, memory_session_id |-> NULL, status |-> "pending", retry_count |-> 0, created_at_epoch |-> t, summarized_at_epoch |-> NULL, summary_id |-> NULL]

\* The same with data.memory_session_id given by the caller.
NewRequestFrom(s, t, m) == [NewRequest(s, t) EXCEPT !.memory_session_id = m]

\* insertRaw: always inserts; no query of the table precedes the INSERT.
insertRawRequest(tbl, id, s, t) == [i \in DOMAIN tbl \cup {id} |-> IF i = id THEN NewRequest(s, t) ELSE tbl[i]]

\* SELECT COUNT(*) ... WHERE session_db_id = ? AND status IN ('pending', 'summarizing')
LiveForSession(tbl, s) == {i \in DOMAIN tbl : tbl[i].session_db_id = s /\ tbl[i].status \in {"pending", "summarizing"}}

hasPendingForSession(tbl, s) == Cardinality(LiveForSession(tbl, s)) > 0

\* Same transaction as the event store's, on raw_summary_requests.
claimRequestsForSummarization(tbl, lim) == claimBatchForSummarization(tbl, lim)

\* UPDATE ... SET status = 'completed', summary_id = ?, summarized_at_epoch = ? WHERE id = ?
markRequestCompleted(tbl, id, summaryId, t) == [i \in DOMAIN tbl |-> IF i = id THEN [tbl[i] EXCEPT !.status = "completed", !.summary_id = summaryId, !.summarized_at_epoch = t] ELSE tbl[i]]

\* Same retry logic as the event store's markFailed.
markRequestFailed(tbl, id, max) == markFailed(tbl, id, max)

\* UPDATE ... SET status = 'pending' WHERE status = 'summarizing'
releaseStuckRequests(tbl) == [i \in DOMAIN tbl |-> IF tbl[i].status = "summarizing" THEN [tbl[i] EXCEPT !.status = "pending"] ELSE tbl[i]]

\* --------------------------------------------------- RawSummarySummarizer

eventSide == <<events, nextId, stored, failTicks, procs, trackedProcesses, term, scan>>

\* The Stop hook's path into the store.
InsertRequestUpTo(s, cap) ==
    /\ reqNextId <= cap
    /\ requests' = insertRawRequest(requests, reqNextId, s, now)
    /\ reqNextId' = reqNextId + 1
    /\ UNCHANGED <<now, maxRetries, interval, isProcessing, batchCounter, work>>
    /\ UNCHANGED eventSide

InsertRequest(s) == InsertRequestUpTo(s, MaxRows)

\* The Stop hook passing the memory_session_id it knows of (m) along.
InsertRequestWithCopy(s, m) ==
    /\ reqNextId <= MaxRows
    /\ requests' = [i \in DOMAIN requests \cup {reqNextId} |-> IF i = reqNextId THEN NewRequestFrom(s, now, m) ELSE requests[i]]
    /\ reqNextId' = reqNextId + 1
    /\ UNCHANGED <<now, maxRetries, interval, isProcessing, batchCounter, work>>
    /\ UNCHANGED eventSide

startSummary(w) ==
    /\ IF interval[w]
       THEN UNCHANGED <<requests, interval>>
       ELSE /\ requests' = releaseStuckRequests(requests)
            /\ interval' = [interval EXCEPT ![w] = TRUE]
    /\ UNCHANGED <<reqNextId, now, maxRetries, isProcessing, batchCounter, work>>
    /\ UNCHANGED eventSide

stopSummary(w) ==
    /\ interval' = [interval EXCEPT ![w] = FALSE]
    /\ UNCHANGED <<requests, reqNextId, now, maxRetries, isProcessing, batchCounter, work>>
    /\ UNCHANGED eventSide

\* if (this.batchCounter % this.staleCheckEveryNBatches === 0) releaseStuckRequests()
periodicRelease(tbl, counter) == IF counter % staleCheckEveryNBatches = 0 THEN releaseStuckRequests(tbl) ELSE tbl

\* The claimed requests, one group per request: each is summarized on its own.
Singletons(batch) == [k \in 1..Len(batch) |-> <<batch[k]>>]

\* The body of a tick of the summary worker up to the await of the first
\* request's LLM call (or its end).
summaryTickBody(w) ==
    LET c == claimRequestsForSummarization(periodicRelease(requests, batchCounter[w] + 1), batchSize)
    IN  /\ requests' = c.tbl
        /\ batchCounter' = [batchCounter EXCEPT ![w] = (batchCounter[w] + 1) % staleCheckEveryNBatches]
        /\ work' = [work EXCEPT ![w] = Singletons(c.batch)]
        /\ isProcessing' = [isProcessing EXCEPT ![w] = c.batch # <<>>]
        /\ UNCHANGED <<reqNextId, now, maxRetries, interval>>
        /\ UNCHANGED eventSide

\* processBatch of the summary worker without its first line.
processSummaryBatchUnguarded(w) == summaryTickBody(w)

\* RawSummarySummarizer.processBatch up to its first await (or its end).
processSummaryBatch(w) == IF isProcessing[w] THEN UNCHANGED vars ELSE summaryTickBody(w)

SummaryTimerTick(w) ==
    /\ interval[w]
    /\ processSummaryBatch(w)

forceProcessSummary(w) == processSummaryBatch(w)

\* How the awaited LLM call and what follows it can turn out: the call throws,
\* the parser finds no summary, the session record is missing or has no
\* memory_session_id, storeObservations throws, or it returns a summaryId
\* (n) or none (NULL).
\* The values a memory_session_id takes.
MemoryIds == {1, 2}

\* What getSessionById can answer: no record, or a record whose
\* memory_session_id is null or set.
SessionRecords == {[found |-> FALSE, memory_session_id |-> NULL]} \cup {[found |-> TRUE, memory_session_id |-> m] : m \in MemoryIds \cup {NULL}}

\* What storeObservations can do: throw, return a summaryId, or return none.
StoreAnswers == {"throws", "id", "noId"}

\* parseSummary: the summary found in the text, null when there is none.
parseSummary(content) == content.text /\ content.blocks > 0

\* The messages of the errors summarizeRequest can catch: the one of
\* callOpenRouter / callGemini, the two it throws itself, the store's.
LLMError == "OpenRouter API error"

ParseFailure == "Failed to parse summary from LLM response"

NoMemorySessionId == "No memory_session_id for session"

StoreError == "SessionStore error"

NoError == ""

\* summarizeRequest taking the memory_session_id from the request.
materializeFromRequestCopy(copy, r, rec, store) ==
    LET c == callOpenRouter(r)
    IN  IF c.threw THEN [kind |-> "error", message |-> LLMError, n |-> NULL, memorySessionId |-> NULL]
        ELSE IF ~parseSummary(c.content) THEN [kind |-> "noparse", message |-> ParseFailure, n |-> NULL, memorySessionId |-> NULL]
        ELSE IF copy = NULL THEN [kind |-> "nomem", message |-> NoMemorySessionId, n |-> NULL, memorySessionId |-> NULL]
        ELSE IF store = "throws" THEN [kind |-> "storeThrows", message |-> StoreError, n |-> NULL, memorySessionId |-> copy]
        ELSE [kind |-> "stored", message |-> NoError, n |-> IF store = "id" THEN 1 ELSE NULL, memorySessionId |-> copy]

\* summarizeRequest storing whatever the parser returned.
materializeStoresUnparsed(copy, r, rec, store) ==
    LET c == callOpenRouter(r)
    IN  IF c.threw THEN [kind |-> "error", message |-> LLMError, n |-> NULL, memorySessionId |-> NULL]
        ELSE IF ~rec.found THEN [kind |-> "missing", message |-> NoMemorySessionId, n |-> NULL, memorySessionId |-> NULL]
        ELSE IF rec.memory_session_id = NULL THEN [kind |-> "nomem", message |-> NoMemorySessionId, n |-> NULL, memorySessionId |-> NULL]
        ELSE IF store = "throws" THEN [kind |-> "storeThrows", message |-> StoreError, n |-> NULL, memorySessionId |-> rec.memory_session_id]
        ELSE [kind |-> "stored", message |-> NoError, n |-> IF store = "id" THEN 1 ELSE NULL, memorySessionId |-> rec.memory_session_id]

\* summarizeRequest from the await of callLLM (same callers as the event
\* worker's) to the call of storeObservations, for a request carrying the
\* memory_session_id copy: how it turns out, the message of the error caught
\* (passed to markFailed), the summaryId returned, and the memory_session_id
\* storeObservations was called with (NULL: not called).
materialize(copy, r, rec, store) ==
    LET c == callOpenRouter(r)
    IN  IF c.threw THEN [kind |-> "error", message |-> LLMError, n |-> NULL, memorySessionId |-> NULL]
        ELSE IF ~parseSummary(c.content) THEN [kind |-> "noparse", message |-> ParseFailure, n |-> NULL, memorySessionId |-> NULL]
        ELSE IF ~rec.found THEN [kind |-> "missing", message |-> NoMemorySessionId, n |-> NULL, memorySessionId |-> NULL]
        ELSE IF rec.memory_session_id = NULL THEN [kind |-> "nomem", message |-> NoMemorySessionId, n |-> NULL, memorySessionId |-> NULL]
        ELSE IF store = "throws" THEN [kind |-> "storeThrows", message |-> StoreError, n |-> NULL, memorySessionId |-> rec.memory_session_id]
        ELSE [kind |-> "stored", message |-> NoError, n |-> IF store = "id" THEN 1 ELSE NULL, memorySessionId |-> rec.memory_session_id]

\* The materializations there are.
Materializations == {materialize(copy, r, rec, store) : copy \in MemoryIds \cup {NULL}, r \in Responses, rec \in SessionRecords, store \in StoreAnswers}

SummaryResults == {[kind |-> o.kind, n |-> o.n] : o \in Materializations}

\* summarizeRequest from the return of its await to its end.
summarizeRequest(tbl, id, res, max, t) == IF res.kind = "stored" THEN markRequestCompleted(tbl, id, IF res.n = NULL THEN 0 ELSE res.n, t) ELSE markRequestFailed(tbl, id, max)

\* The awaited call of the request at the head returns; the loop goes on to
\* the next request's await, or the tick ends.
SummaryLLMReturn(w, res) ==
    /\ work[w] # <<>>
    /\ requests' = summarizeRequest(requests, Head(work[w])[1], res, maxRetries, now)
    /\ work' = [work EXCEPT ![w] = Tail(work[w])]
    /\ isProcessing' = [isProcessing EXCEPT ![w] = Tail(work[w]) # <<>>]
    /\ UNCHANGED <<reqNextId, now, maxRetries, interval, batchCounter>>
    /\ UNCHANGED eventSide

NextSummary ==
    \/ \E s \in Sessions : InsertRequest(s)
    \/ AdvanceClock
    \/ \E w \in SummaryWorkers : startSummary(w)
    \/ \E w \in SummaryWorkers : stopSummary(w)
    \/ \E w \in SummaryWorkers : SummaryTimerTick(w)
    \/ \E w \in SummaryWorkers : forceProcessSummary(w)
    \/ \E w \in SummaryWorkers, res \in SummaryResults : SummaryLLMReturn(w, res)
    \/ \E w \in SummaryWorkers : Kill(w)

SpecSummary == InitTick /\ [][NextSummary]_vars

\* C6: in the summary-request queue at most one row per session_db_id is
\* pending or summarizing at any time, and an insertRaw for a session that
\* already has such a row adds nothing.
C6_OneLiveRequestPerSession == [](\A s \in Sessions : Cardinality(LiveForSession(requests, s)) <= 1) /\ [][\A s \in Sessions : hasPendingForSession(requests, s) => ~\E i \in DOMAIN requests' \ DOMAIN requests : requests'[i].session_db_id = s]_vars

\* ------------------------------------------- the event worker kept running

\* One event worker that is restarted after every crash and never stopped.
NextLive ==
    \/ InsertEvent(1)
    \/ AdvanceClock
    \/ start("w1")
    \/ TimerTick("w1")
    \/ \E res \in LLMResults : LLMReturn("w1", res)
    \/ Kill("w1")

\* A timer tick changes the state exactly when the timer is set and no tick
\* is running; an awaited call can return exactly when a tick holds work.
TickEnabled == interval["w1"] /\ ~isProcessing["w1"]

ReturnEnabled == work["w1"] # <<>>

\* The timer fires every intervalMs, an awaited LLM call ends (by its result or
\* by the abort timeout), and a crashed service is started again: weak
\* fairness of the three, the enabling conditions of the first two written out.
LiveFairness == /\ ([]<>(~TickEnabled) \/ []<><<TimerTick("w1")>>_vars) /\ ([]<>(~ReturnEnabled) \/ []<><<\E res \in LLMResults : LLMReturn("w1", res)>>_vars) /\ WF_vars(start("w1"))

SpecLive == InitTick /\ [][NextLive]_vars /\ LiveFairness

\* Row i is in summarizing, no running tick holds it, and it is older than the stall threshold.
StuckRow(i) == i \in DOMAIN events /\ events[i].status = "summarizing" /\ (\A w \in Workers : i \notin HeldIds(w)) /\ events[i].created_at_epoch < now - DefaultOlderThanMs

\* C11: while the event worker keeps ticking, a row stuck in summarizing and
\* older than the stall threshold is eventually released by a periodic release
\* of the worker: no row stays in summarizing forever.
C11_StuckEventuallyReleased == \A i \in 1..MaxRows : StuckRow(i) ~> (i \notin DOMAIN events \/ events[i].status # "summarizing")

\* ------------------------------------ the store's methods called directly

\* Any caller of RawToolEventStore: each method with any argument, in any order.
StoreUnchanged == UNCHANGED <<maxRetries, interval, isProcessing, batchCounter, work, stored, failTicks, requests, reqNextId, procs, trackedProcesses, term, scan>>

StoreInsertRaw(s) ==
    /\ nextId <= MaxRows
    /\ events' = InsertRaw(events, nextId, s, now)
    /\ nextId' = nextId + 1
    /\ stored' = Append(stored, 0)
    /\ failTicks' = Append(failTicks, 0)
    /\ UNCHANGED <<now, maxRetries, interval, isProcessing, batchCounter, work, requests, reqNextId, procs, trackedProcesses, term, scan>>

StoreClaim(lim) ==
    /\ events' = claimBatchForSummarization(events, lim).tbl
    /\ UNCHANGED <<nextId, now>>
    /\ StoreUnchanged

StoreMarkCompleted(id, observationId) ==
    /\ events' = markCompleted(events, id, observationId, now)
    /\ UNCHANGED <<nextId, now>>
    /\ StoreUnchanged

\* The count is kept within the model's range.
StoreMarkFailed(id) ==
    /\ events[id].retry_count <= maxRetries
    /\ events' = markFailed(events, id, maxRetries)
    /\ UNCHANGED <<nextId, now>>
    /\ StoreUnchanged

StoreRelease(olderThanMs) ==
    /\ events' = releaseStuckEvents(events, now, olderThanMs)
    /\ UNCHANGED <<nextId, now>>
    /\ StoreUnchanged

StoreDeleteCompleted(olderThanEpoch) ==
    /\ events' = deleteCompleted(events, olderThanEpoch)
    /\ UNCHANGED <<nextId, now>>
    /\ StoreUnchanged

Thresholds == 0..MaxTime

NextStore ==
    \/ \E s \in Sessions : StoreInsertRaw(s)
    \/ AdvanceClock
    \/ \E lim \in 1..batchSize : StoreClaim(lim)
    \/ \E id \in DOMAIN events, o \in 0..1 : StoreMarkCompleted(id, o)
    \/ \E id \in DOMAIN events : StoreMarkFailed(id)
    \/ \E thr \in Thresholds : StoreRelease(thr)
    \/ \E T \in 0..(MaxTime + 1) : StoreDeleteCompleted(T)

SpecStore == Init /\ [][NextStore]_vars

\* C12: releaseStuckEvents(threshold) reverts to pending exactly the rows in
\* summarizing with created_at_epoch < now - threshold, returns their count,
\* and leaves retry_count and every other row as they were.
C12_ReleaseExact == \A thr \in Thresholds : LET r == releaseStuckEvents(events, now, thr) old == {i \in DOMAIN events : events[i].status = "summarizing" /\ events[i].created_at_epoch < now - thr} IN /\ DOMAIN r = DOMAIN events /\ (\A i \in old : r[i] = [events[i] EXCEPT !.status = "pending"]) /\ (\A i \in DOMAIN events \ old : r[i] = events[i]) /\ (\A i \in DOMAIN events : r[i].retry_count = events[i].retry_count) /\ releaseStuckEventsChanges(events, now, thr) = Cardinality(old)

\* C12 witness: of two rows in summarizing, a release has one to revert and a younger one to leave.
C12_Witness == \E thr \in Thresholds : \E i, j \in DOMAIN events : /\ events[i].status = "summarizing" /\ events[j].status = "summarizing" /\ events[i].created_at_epoch < now - thr /\ events[j].created_at_epoch = now - thr /\ events[i].retry_count > 0

\* C13: deleteCompleted(T) removes exactly the completed rows with
\* summarized_at_epoch < T, returns their count, and changes no other row.
C13_DeleteExact == \A T \in 0..(MaxTime + 1) : LET r == deleteCompleted(events, T) gone == {i \in DOMAIN events : events[i].status = "completed" /\ events[i].summarized_at_epoch < T} IN /\ DOMAIN r = DOMAIN events \ gone /\ (\A i \in DOMAIN r : r[i] = events[i]) /\ deleteCompletedChanges(events, T) = Cardinality(gone)

\* C13 witness: a completed row old enough to delete beside a completed row that is not.
C13_Witness == \E T \in 0..(MaxTime + 1) : \E i, j \in DOMAIN events : /\ events[i].status = "completed" /\ events[i].summarized_at_epoch < T /\ events[j].status = "completed" /\ events[j].summarized_at_epoch >= T

\* C15: claimBatchForSummarization(limit) returns exactly min(limit, pending
\* rows) rows, all pending, oldest first (no unclaimed pending row is older
\* than a claimed one), flips exactly those to summarizing, changes no other
\* row, and returns the empty sequence when none is pending.
C15_ClaimExact == \A lim \in 1..batchSize : LET c == claimBatchForSummarization(events, lim) pend == {i \in DOMAIN events : events[i].status = "pending"} ids == {c.batch[k] : k \in 1..Len(c.batch)} IN /\ Len(c.batch) = (IF lim < Cardinality(pend) THEN lim ELSE Cardinality(pend)) /\ Cardinality(ids) = Len(c.batch) /\ ids \subseteq pend /\ (\A i \in ids, j \in pend \ ids : events[i].created_at_epoch <= events[j].created_at_epoch) /\ (\A a, b \in 1..Len(c.batch) : a < b => events[c.batch[a]].created_at_epoch <= events[c.batch[b]].created_at_epoch) /\ DOMAIN c.tbl = DOMAIN events /\ (\A i \in ids : c.tbl[i] = [events[i] EXCEPT !.status = "summarizing"]) /\ (\A i \in DOMAIN events \ ids : c.tbl[i] = events[i]) /\ (pend = {} => c.batch = <<>>)

\* C15 witness: two pending rows of different age, more than a claim of limit 1 takes.
C15_Witness == \E i, j \in DOMAIN events : /\ events[i].status = "pending" /\ events[j].status = "pending" /\ events[i].created_at_epoch < events[j].created_at_epoch /\ Len(claimBatchForSummarization(events, 1).batch) = 1

\* C16: markFailed is idempotent: for a claimed row, a second markFailed(id)
\* for the same failure leaves status and retry_count as the first call left them.
C16_MarkFailedIdempotent == \A id \in DOMAIN events : events[id].status = "summarizing" => LET once == markFailed(events, id, maxRetries) twice == markFailed(once, id, maxRetries) IN twice[id].status = once[id].status /\ twice[id].retry_count = once[id].retry_count

\* C14: no worker or queue operation deletes a row that is pending,
\* summarizing or failed: a row that disappears was completed, and completed
\* longer ago than the retention window.
C14_NeverLoseRaw == [][\A i \in DOMAIN events \ DOMAIN events' : events[i].status = "completed" /\ events[i].summarized_at_epoch # NULL /\ events[i].summarized_at_epoch < now - completedRetentionMs]_vars

\* C14 witness: the garbage collection has removed a row and a failed row is still there.
C14_Witness == /\ \E i \in 1..(nextId - 1) : i \notin DOMAIN events /\ \E j \in DOMAIN events : events[j].status = "failed"

\* C17: every completed row has summarized_at_epoch set and observation_id
\* set, and observation_id is 0 exactly when no observation was produced for
\* the row.
C17_CompletedHasIds == \A i \in DOMAIN events : events[i].status = "completed" => /\ events[i].summarized_at_epoch # NULL /\ events[i].observation_id # NULL /\ (events[i].observation_id = 0 <=> stored[i] = 0)

\* ---------------------------------------------------------- ProcessTracker

\* A process is described by what the OS knows (alive: the pid exists;
\* matches: its command line has the agent signature; startedAt) and, when it
\* is a child of this worker, by the fields of its ChildProcess object: exited (the 'exit' event has been
\* emitted), exitCode (non-null only after an exit that was not by signal) and
\* killed (a signal was successfully sent through kill(); it does not say that
\* the child has terminated).
queueSide == <<events, nextId, now, maxRetries, interval, isProcessing, batchCounter, work, stored, failTicks, requests, reqNextId>>

NewChild(s) == [session |-> s, alive |-> TRUE, bySignal |-> FALSE, exited |-> FALSE, exitCode |-> NULL, killed |-> FALSE, child |-> TRUE, matches |-> TRUE, startedAt |-> now]

\* The function createTrackedSpawnFunction(sessionDbId) returns, called by the
\* SDK: the record for the session is set (overwriting any earlier one) and an
\* 'exit' listener of the child is registered.
spawnTracked(s) ==
    /\ Len(procs) < MaxProcs
    /\ procs' = Append(procs, NewChild(s))
    /\ trackedProcesses' = [trackedProcesses EXCEPT ![s] = Len(procs) + 1]
    /\ UNCHANGED term
    /\ UNCHANGED <<queueSide, scan>>

\* The child ends on its own.
ChildExits(pid) ==
    /\ procs[pid].alive
    /\ procs' = [procs EXCEPT ![pid].alive = FALSE]
    /\ UNCHANGED <<trackedProcesses, term, scan>>
    /\ UNCHANGED queueSide

\* The 'exit' listener registered at spawn: this.trackedProcesses.delete(sessionDbId)
onExit(tracked, s) == [tracked EXCEPT ![s] = NULL]

\* A waitForExit promise of the call in progress on this child is resolved by the 'exit' event.
ResolveOnExit(t, pid) == IF t.pc \in {"awaitGraceful", "awaitForce"} /\ t.pid = pid /\ t.resolved = "pending" THEN [t EXCEPT !.resolved = "true"] ELSE t

\* Node emits 'exit' for a child that has ended: exitCode is set unless the
\* child was ended by a signal, and the listeners run.
ExitEvent(pid) ==
    /\ procs[pid].child
    /\ ~procs[pid].alive
    /\ ~procs[pid].exited
    /\ procs' = [procs EXCEPT ![pid].exited = TRUE, ![pid].exitCode = IF procs[pid].bySignal THEN NULL ELSE 0]
    /\ trackedProcesses' = onExit(trackedProcesses, procs[pid].session)
    /\ term' = ResolveOnExit(term, pid)
    /\ UNCHANGED <<queueSide, scan>>

\* proc.kill(signal) on the child: the signal is sent when the pid exists (sent
\* may also be TRUE for a child that has ended and is not yet reaped), killed
\* is set when it was sent, and a child that the signal ends stops existing.
kill(child, sent, dies) == [child EXCEPT !.killed = child.killed \/ sent, !.alive = child.alive /\ ~(sent /\ dies), !.bySignal = child.bySignal \/ (child.alive /\ sent /\ dies)]

SendOutcomes(child) == IF child.alive THEN {TRUE} ELSE IF child.exited THEN {FALSE} ELSE BOOLEAN

\* waitForExit(proc, timeoutMs): resolved at once when exitCode is set or
\* killed is true, by the 'exit' event or the timer otherwise.
waitForExit(child) == IF child.exitCode # NULL \/ child.killed THEN "true" ELSE "pending"

\* verifyProcessDead(pid): process.kill(pid, 0) throws when the pid does not exist.
verifyProcessDead(pid) == ~procs[pid].alive

\* terminateProcess(sessionDbId) up to its first await or early return.
terminateProcess(s) ==
    /\ term.pc \in {"idle", "done"}
    /\ LET pid == trackedProcesses[s]
       IN  IF pid = NULL
           THEN /\ term' = [NoCall EXCEPT !.pc = "done", !.session = s, !.ret = TRUE]
                /\ UNCHANGED <<procs, trackedProcesses>>
           ELSE IF procs[pid].killed \/ procs[pid].exitCode # NULL
           THEN /\ term' = [NoCall EXCEPT !.pc = "done", !.session = s, !.pid = pid, !.ret = TRUE]
                /\ trackedProcesses' = [trackedProcesses EXCEPT ![s] = NULL]
                /\ UNCHANGED procs
           ELSE \E sent \in SendOutcomes(procs[pid]), dies \in BOOLEAN :
                    LET child == kill(procs[pid], sent, dies)
                    IN  /\ procs' = [procs EXCEPT ![pid] = child]
                        /\ term' = [NoCall EXCEPT !.pc = "awaitGraceful", !.session = s, !.pid = pid, !.sentTerm = sent, !.resolved = waitForExit(child)]
                        /\ UNCHANGED trackedProcesses
    /\ UNCHANGED <<queueSide, scan>>

\* setTimeout(() => resolve(false), timeoutMs) of the pending waitForExit.
WaitTimesOut ==
    /\ term.pc \in {"awaitGraceful", "awaitForce"}
    /\ term.resolved = "pending"
    /\ term' = [term EXCEPT !.resolved = "false"]
    /\ UNCHANGED <<procs, trackedProcesses>>
    /\ UNCHANGED <<queueSide, scan>>

\* terminateProcess resumed after the graceful wait: return true when it
\* reported an exit, SIGKILL and the second wait otherwise.
AfterGraceful ==
    /\ term.pc = "awaitGraceful"
    /\ term.resolved # "pending"
    /\ IF term.resolved = "true"
       THEN /\ trackedProcesses' = [trackedProcesses EXCEPT ![term.session] = NULL]
            /\ term' = [term EXCEPT !.pc = "done", !.ret = TRUE]
            /\ UNCHANGED procs
       ELSE \E sent \in SendOutcomes(procs[term.pid]), dies \in BOOLEAN :
                LET child == kill(procs[term.pid], sent, dies)
                IN  /\ procs' = [procs EXCEPT ![term.pid] = child]
                    /\ term' = [term EXCEPT !.pc = "awaitForce", !.sentKill = sent, !.resolved = waitForExit(child)]
                    /\ UNCHANGED trackedProcesses
    /\ UNCHANGED <<queueSide, scan>>

\* terminateProcess resumed after the second wait: the record is deleted and
\* the probe decides the result.
AfterForce ==
    /\ term.pc = "awaitForce"
    /\ term.resolved # "pending"
    /\ trackedProcesses' = [trackedProcesses EXCEPT ![term.session] = NULL]
    /\ term' = [term EXCEPT !.pc = "done", !.ret = verifyProcessDead(term.pid)]
    /\ UNCHANGED procs
    /\ UNCHANGED <<queueSide, scan>>

NextTracker ==
    \/ \E s \in Sessions : spawnTracked(s)
    \/ \E pid \in DOMAIN procs : ChildExits(pid)
    \/ \E pid \in DOMAIN procs : ExitEvent(pid)
    \/ \E s \in Sessions : terminateProcess(s)
    \/ WaitTimesOut
    \/ AfterGraceful
    \/ AfterForce

SpecTracker == Init /\ [][NextTracker]_vars

\* A step in which a terminateProcess call returns.
TerminateReturns == term' # term /\ term'.pc = "done"

\* Some child spawned for session s still exists.
SessionChildAlive(s) == \E pid \in DOMAIN procs' : procs'[pid].session = s /\ procs'[pid].alive

\* C18: terminateProcess returns true if and only if the pid no longer exists
\* when it returns: the tracked pid, or with no tracked record any child of
\* the session.
C18_TerminateTrueIffGone == [][TerminateReturns => (term'.ret <=> IF term'.pid = NULL THEN ~SessionChildAlive(term'.session) ELSE ~procs'[term'.pid].alive)]_vars

\* C19: terminateProcess never returns after only the polite signal while the
\* child is still alive: a child that has not exited gets the force-kill
\* signal before the call returns.
C19_ForceKillBeforeReturn == [][(TerminateReturns /\ term'.sentTerm /\ procs'[term'.pid].alive) => term'.sentKill]_vars

\* C20: a session's record is removed only when the child it describes has
\* exited or the session is explicitly terminated; the exit of an earlier
\* child of the session leaves the record of a later one in place.
C20_RecordRemovedOnlyForItsChild == [][\A s \in Sessions : (trackedProcesses[s] # NULL /\ trackedProcesses'[s] = NULL) => (procs'[trackedProcesses[s]].exited \/ (term' # term /\ term'.session = s))]_vars

\* ---------------------------------------------------- OrphanProcessScanner

\* this.maxAgeMs = options.maxAgeMs || 30 * 60 * 1000
maxAgeMs == 1800000

\* In the scanner's specification one unit of the clock is maxAgeMs.
UnitSeconds == maxAgeMs \div 1000

\* How long before the worker's start a process left by an earlier run may
\* have begun, in clock units: just now, or more than a day ago.
LeftoverAges == {0, 2 * 24 + 1}

\* A process the worker did not spawn (a child of an earlier run of the worker,
\* or any other program), with or without the agent signature.
LeftoverProcess(s, m, age) ==
    /\ Len(procs) < MaxProcs
    /\ procs' = Append(procs, [NewChild(s) EXCEPT !.child = FALSE, !.matches = m, !.startedAt = now - age])
    /\ UNCHANGED <<trackedProcesses, term, scan>>
    /\ UNCHANGED queueSide

\* Seconds since the process started.
Elapsed(pid) == (now - procs[pid].startedAt) * UnitSeconds

\* The etime column of ps for e elapsed seconds, [[DD-]hh:]mm:ss: the days
\* when there are any, and the colon-separated fields.
etime(e) ==
    LET dd == e \div 86400
        hh == (e % 86400) \div 3600
        mm == (e % 3600) \div 60
        ss == e % 60
    IN  IF dd > 0 THEN [days |-> dd, rest |-> <<hh, mm, ss>>]
        ELSE IF hh > 0 THEN [days |-> NULL, rest |-> <<hh, mm, ss>>]
        ELSE [days |-> NULL, rest |-> <<mm, ss>>]

\* parseElapsedTime: the fields are read from the last one backwards as
\* seconds, minutes and hours.
parseElapsedTime(et) ==
    LET parts == et.rest
        n == Len(parts)
    IN  (IF et.days # NULL THEN et.days * 86400 ELSE 0)
        + (IF n >= 1 THEN parts[n] ELSE 0)
        + (IF n >= 2 THEN parts[n - 1] * 60 ELSE 0)
        + (IF n >= 3 THEN parts[n - 2] * 3600 ELSE 0)

\* new Set(ProcessTracker.getInstance().getAllTracked().map(t => t.pid))
TrackedPids(tracked) == {tracked[s] : s \in Sessions} \ {NULL}

\* ps -eo pid,etime,command | grep -E "[c]laude.*disallowedTools"
PsLines == {pid \in DOMAIN procs : procs[pid].alive /\ procs[pid].matches}

\* The filter without the test against the tracker.
IsOrphanIgnoringTracker(pid, trackedPids) == parseElapsedTime(etime(Elapsed(pid))) * 1000 >= maxAgeMs

\* A line of the listing is kept unless its pid is tracked or it is too young.
IsOrphan(pid, trackedPids) == pid \notin trackedPids /\ parseElapsedTime(etime(Elapsed(pid))) * 1000 >= maxAgeMs

\* The lines of a listing come in the order of the pids.
RECURSIVE Ascending(_)
Ascending(S) == IF S = {} THEN <<>> ELSE LET m == CHOOSE x \in S : \A y \in S : x <= y IN <<m>> \o Ascending(S \ {m})

findOrphansUnix(trackedPids) == Ascending({pid \in PsLines : IsOrphan(pid, trackedPids)})

\* scan() up to the await of the process listing; the tracked pids are read
\* before the listing is made.
scanStart ==
    /\ scan.pc \in {"idle", "done"}
    /\ scan' = [NoScan EXCEPT !.pc = "ps", !.trackedPids = TrackedPids(trackedProcesses)]
    /\ UNCHANGED <<procs, trackedProcesses, term>>
    /\ UNCHANGED queueSide

\* The listing returns, or fails (findOrphanedClaudeProcesses then answers
\* the empty list); with no orphan the scan returns.
psReturns(ok) ==
    /\ scan.pc = "ps"
    /\ LET orphans == IF ok THEN findOrphansUnix(scan.trackedPids) ELSE <<>>
       IN  scan' = [scan EXCEPT !.enumerated = ok, !.foundCount = Len(orphans), !.pids = orphans, !.queue = orphans, !.pc = IF orphans = <<>> THEN "done" ELSE "kill"]
    /\ UNCHANGED <<procs, trackedProcesses, term>>
    /\ UNCHANGED queueSide

\* process.kill(pid, signal): the process may end by it at once or not.
processKill(p, dies) == [p EXCEPT !.alive = p.alive /\ ~dies, !.bySignal = p.bySignal \/ (p.alive /\ dies)]

\* killOrphan answers killed for the orphan at the head; the loop goes on to
\* the next orphan, or the scan returns.
killOrphanReturns(sc, killed) == [sc EXCEPT !.queue = Tail(sc.queue), !.killedCount = IF killed THEN @ + 1 ELSE @, !.failedCount = IF killed THEN @ ELSE @ + 1, !.pc = IF Tail(sc.queue) = <<>> THEN "done" ELSE "kill"]

\* killOrphan(pid) up to its first sleep: SIGTERM, which throws for a pid that
\* no longer exists.
killOrphan ==
    /\ scan.pc = "kill"
    /\ LET pid == Head(scan.queue)
       IN  IF procs[pid].alive
           THEN \E dies \in BOOLEAN :
                    /\ procs' = [procs EXCEPT ![pid] = processKill(procs[pid], dies)]
                    /\ scan' = [scan EXCEPT !.pc = "afterTerm", !.signalled = @ \cup {pid}]
           ELSE /\ scan' = [scan EXCEPT !.pc = "verify"]
                /\ UNCHANGED procs
    /\ UNCHANGED <<trackedProcesses, term>>
    /\ UNCHANGED queueSide

\* After sleep(2000): the probe process.kill(pid, 0), then SIGKILL for a pid
\* that still exists, or return true.
afterTermSleep ==
    /\ scan.pc = "afterTerm"
    /\ LET pid == Head(scan.queue)
       IN  IF procs[pid].alive
           THEN \E dies \in BOOLEAN :
                    /\ procs' = [procs EXCEPT ![pid] = processKill(procs[pid], dies)]
                    /\ scan' = [scan EXCEPT !.pc = "verify", !.sentKill = @ \cup {pid}]
           ELSE /\ scan' = killOrphanReturns(scan, TRUE)
                /\ UNCHANGED procs
    /\ UNCHANGED <<trackedProcesses, term>>
    /\ UNCHANGED queueSide

\* "Verify death" without the probe: the orphan is taken for dead.
verifyDeathAssumesDead ==
    /\ scan.pc = "verify"
    /\ scan' = killOrphanReturns(scan, TRUE)
    /\ UNCHANGED <<procs, trackedProcesses, term>>
    /\ UNCHANGED queueSide

\* "Verify death": after the last sleep the probe decides the answer.
verifyDeath ==
    /\ scan.pc = "verify"
    /\ scan' = killOrphanReturns(scan, ~procs[Head(scan.queue)].alive)
    /\ UNCHANGED <<procs, trackedProcesses, term>>
    /\ UNCHANGED queueSide

\* The listing is awaited for at most 30 seconds, far less than one unit of
\* the clock.
ScannerClock == scan.pc # "ps" /\ AdvanceClock

NextReaper ==
    \/ \E s \in Sessions : spawnTracked(s)
    \/ \E m \in BOOLEAN, age \in LeftoverAges : LeftoverProcess(1, m, age)
    \/ \E pid \in DOMAIN procs : ChildExits(pid)
    \/ \E pid \in DOMAIN procs : ExitEvent(pid)
    \/ ScannerClock
    \/ scanStart
    \/ \E ok \in BOOLEAN : psReturns(ok)
    \/ killOrphan
    \/ afterTermSleep
    \/ verifyDeath

SpecReaper == Init /\ [][NextReaper]_vars

\* The pids the reaper signals in this step.
SignalledNow == (scan'.signalled \ scan.signalled) \cup (scan'.sentKill \ scan.sentKill)

\* Old enough for the reaper: started at least maxAgeMs ago.
OldEnough(pid) == (now - procs[pid].startedAt) * UnitSeconds * 1000 >= maxAgeMs

KillOrphanAnswers == scan.pc \in {"afterTerm", "verify"} /\ scan'.queue = Tail(scan.queue)

\* The orphan is counted as killed, or as failed, in this step.
CountedKilled == scan'.killedCount = scan.killedCount + 1 /\ scan'.failedCount = scan.failedCount

CountedFailed == scan'.failedCount = scan.failedCount + 1 /\ scan'.killedCount = scan.killedCount

processBatchThrows(w) ==
    /\ ~isProcessing[w]
    /\ batchCounter' = [batchCounter EXCEPT ![w] = (batchCounter[w] + 1) % cleanupEveryNBatches]
    /\ events' = cleanupCompletedEvents(events, batchCounter[w] + 1, now)
    /\ UNCHANGED <<nextId, now, maxRetries, interval, isProcessing, work, stored, failTicks, requests, reqNextId, procs, trackedProcesses, term, scan>>

\* The same in the summary worker.
processSummaryBatchThrows(w) ==
    /\ ~isProcessing[w]
    /\ batchCounter' = [batchCounter EXCEPT ![w] = (batchCounter[w] + 1) % staleCheckEveryNBatches]
    /\ requests' = periodicRelease(requests, batchCounter[w] + 1)
    /\ UNCHANGED <<reqNextId, now, maxRetries, interval, isProcessing, work>>
    /\ UNCHANGED eventSide

\* The event worker "w1" and the summary worker "s1" of one running service,
\* each on its own table.
NextWorkers ==
    \/ InsertEvent(1)
    \/ InsertRequestUpTo(1, MaxRequests)
    \/ start("w1")
    \/ stop("w1")
    \/ TimerTick("w1")
    \/ forceProcess("w1")
    \/ processBatchThrows("w1")
    \/ \E res \in LLMResults : LLMReturn("w1", res)
    \/ startSummary("s1")
    \/ stopSummary("s1")
    \/ SummaryTimerTick("s1")
    \/ forceProcessSummary("s1")
    \/ processSummaryBatchThrows("s1")
    \/ \E res \in SummaryResults : SummaryLLMReturn("s1", res)

SpecWorkers == InitTick /\ [][NextWorkers]_vars

\* The table worker w drains, before and after the step.
TableOf(w) == IF w \in Workers THEN events ELSE requests

TableOfNext(w) == IF w \in Workers THEN events' ELSE requests'

\* A tick body of worker w begins in this step: this.batchCounter++.
BodyStarts(w) == batchCounter'[w] # batchCounter[w]

\* A row of w's table goes from pending to summarizing in this step.
ClaimsNow(w) == \E i \in DOMAIN TableOf(w) \cap DOMAIN TableOfNext(w) : TableOf(w)[i].status = "pending" /\ TableOfNext(w)[i].status = "summarizing"

\* C22: for each worker at most one tick body runs at a time: while the guard
\* is set no tick body begins and no row is claimed (a tick that fires then
\* returns at once and is not queued), and the guard is set exactly while a
\* body is waiting on its LLM call: it is clear after a tick that ended
\* normally, returned early on an empty batch, or threw.
C22_ReentrancyGuard ==
    /\ [](\A w \in {"w1", "s1"} : isProcessing[w] <=> work[w] # <<>>)
    /\ [][\A w \in {"w1", "s1"} : isProcessing[w] => ~BodyStarts(w) /\ ~ClaimsNow(w)]_vars

\* C22 witness: both workers wait on an LLM call with their timers set, and a
\* pending event is there for a tick of the event worker to claim.
C22_Witness == /\ isProcessing["w1"] /\ interval["w1"] /\ HeldIds("w1") = {1} /\ 2 \in DOMAIN events /\ events[2].status = "pending" /\ isProcessing["s1"] /\ interval["s1"]

\* ------------------------------ fair ticking, no crash, no storage error

\* The outcomes of an LLM call and of what follows it in which the SessionStore
\* does not throw.
LLMResultsNoStorageError == {res \in LLMResults : res.kind # "storeThrows"}

SummaryResultsNoStorageError == {res \in SummaryResults : res.kind # "storeThrows"}

\* Event workers on one table and the summary worker, started and never
\* stopped or killed.
NextFair ==
    \/ InsertEventUpTo(1, MaxFairRows)
    \/ InsertRequestUpTo(1, MaxRequests)
    \/ AdvanceClock
    \/ \E w \in Workers : start(w)
    \/ \E w \in Workers : TimerTick(w)
    \/ \E w \in Workers, res \in LLMResultsNoStorageError : LLMReturn(w, res)
    \/ startSummary("s1")
    \/ SummaryTimerTick("s1")
    \/ \E res \in SummaryResultsNoStorageError : SummaryLLMReturn("s1", res)

\* Every timer that is set keeps firing, every awaited call returns and every
\* worker gets started: weak fairness, the enabling conditions written out.
FairTicking ==
    /\ \A w \in Workers : []<>(~(interval[w] /\ ~isProcessing[w])) \/ []<><<TimerTick(w)>>_vars
    /\ \A w \in Workers : []<>(work[w] = <<>>) \/ []<><<\E res \in LLMResultsNoStorageError : LLMReturn(w, res)>>_vars
    /\ ([]<>(~(interval["s1"] /\ ~isProcessing["s1"])) \/ []<><<SummaryTimerTick("s1")>>_vars)
    /\ ([]<>(work["s1"] = <<>>) \/ []<><<\E res \in SummaryResultsNoStorageError : SummaryLLMReturn("s1", res)>>_vars)
    /\ \A w \in Workers : []<>(interval[w]) \/ []<><<start(w)>>_vars
    /\ WF_vars(startSummary("s1"))

SpecFair == Init /\ [][NextFair]_vars /\ FairTicking

Terminal(tbl, i) == IF i \in DOMAIN tbl THEN tbl[i].status \in {"completed", "failed"} ELSE FALSE

\* Row i is terminal, or was completed and has been removed by the cleanup.
Settled(tbl, i) == IF i \in DOMAIN tbl THEN tbl[i].status \in {"completed", "failed"} ELSE TRUE

\* The ticks that hold row i of their table now.
Holders(i) == {w \in Workers : i \in HeldIds(w)}

\* C23: under fair ticking with no crash and no storage error every inserted
\* raw event and every summary request eventually is completed or failed, and
\* a row is claimed at most MAX_RETRIES times before it is terminal: the
\* claims of a row that ended in markFailed and the claims that still hold it
\* never number more than MAX_RETRIES.
C23_EveryRowTerminates ==
    /\ \A i \in 1..MaxFairRows : (i \in DOMAIN events) ~> Settled(events, i)
    /\ \A i \in 1..MaxRequests : (i \in DOMAIN requests) ~> Settled(requests, i)
    /\ [](\A i \in DOMAIN events : ~Terminal(events, i) => failTicks[i] + Cardinality(Holders(i)) <= maxRetries)

\* ------------------------------------- the outcomes of a sub-batch's call

\* The workers that wait on the LLM call of a sub-batch.
Waiting == {w \in Workers : work[w] # <<>>}

\* The table after the call worker w waits on settles with response r and
\* the SessionStore behaves as store says.
AfterResponse(w, r, store) == summarizeSessionEvents(events, Head(work[w]), Outcome(r, store), maxRetries, now)

\* Row i of tbl is what one markFailed makes of the row as it is now.
FailedOnce(tbl, i) == /\ tbl[i].retry_count = events[i].retry_count + 1 /\ tbl[i].status = (IF events[i].retry_count + 1 >= maxRetries THEN "failed" ELSE "pending") /\ tbl[i].observation_id = events[i].observation_id

\* Every event of the awaited sub-batch is failed by markFailed, none completed.
SubBatchFailed(w, r) == \A store \in {"ok", "throws"} : \A i \in Range(Head(work[w])) : FailedOnce(AfterResponse(w, r, store), i) /\ AfterResponse(w, r, store)[i].status # "completed"

\* C24 as stated: when the LLM call of a sub-batch fails by a network error, a
\* timeout, a non-2xx status or empty content, every event of the sub-batch is
\* failed via markFailed and none is marked completed.
C24_FailedCallFailsSubBatch == \A w \in Waiting : \A r \in Responses : r.net \in {"network", "timeout", "status", "none"} => SubBatchFailed(w, r)

\* C24 amended: when the LLM call of a sub-batch fails by a missing API key, a
\* network error, a timeout or a non-2xx status, every event of the sub-batch
\* is failed via markFailed and none is marked completed.
C24_ThrownCallFailsSubBatch == \A w \in Waiting : \A r \in Responses : r.net \in {"authMissing", "network", "timeout", "status"} => SubBatchFailed(w, r)

\* C24 witness: a tick waits on the call of a sub-batch of two events, one of
\* them on its last attempt.
C24_Witness == \E w \in Waiting : /\ Len(Head(work[w])) = 2 /\ \E i, j \in Range(Head(work[w])) : events[i].retry_count = 0 /\ events[j].retry_count = maxRetries - 1

\* Row i of tbl is the row as it is now, completed at the current time with observation id o.
CompletedWith(tbl, i, o) == tbl[i] = [events[i] EXCEPT !.status = "completed", !.observation_id = o, !.summarized_at_epoch = now]

\* C25: a 2xx response with no content is not an error at the client: the
\* call returns the empty string, the parser finds no observation in it, and
\* the worker completes every event of the sub-batch, retry_count unchanged.
C25_EmptyResponseIsSuccess == \A w \in Waiting : \A r \in Responses : r.net = "none" => /\ ~callOpenRouter(r).threw /\ callOpenRouter(r).content = NoText /\ parseObservations(callOpenRouter(r).content) = 0 /\ \A store \in {"ok", "throws"} : \A i \in Range(Head(work[w])) : AfterResponse(w, r, store)[i].status = "completed" /\ AfterResponse(w, r, store)[i].retry_count = events[i].retry_count

\* C25 witness: a tick waits on the call of a sub-batch holding an event that
\* has already failed once.
C25_Witness == \E w \in Waiting : \E i \in Range(Head(work[w])) : events[i].status = "summarizing" /\ events[i].retry_count = 1

\* The responses that do not throw and parse to no observation.
ParsesToNothing(r) == ~callOpenRouter(r).threw /\ parseObservations(callOpenRouter(r).content) = 0

\* C26: when the parser returns zero observations for a sub-batch, every
\* event of the sub-batch is marked completed with observation_id 0,
\* storeObservations is not called, and no event's retry_count changes.
C26_EmptyParseCompletes == \A w \in Waiting : \A r \in Responses : ParsesToNothing(r) => \A store \in {"ok", "throws"} : /\ ~StoreCalled(Outcome(r, store)) /\ ~MarksFailed(Outcome(r, store)) /\ (\A i \in Range(Head(work[w])) : CompletedWith(AfterResponse(w, r, store), i, 0)) /\ (\A i \in DOMAIN events : AfterResponse(w, r, store)[i].retry_count = events[i].retry_count) /\ (\A i \in DOMAIN events \ Range(Head(work[w])) : AfterResponse(w, r, store)[i] = events[i])

\* C26 witness: a sub-batch waits on its call, one of its events on a second
\* attempt, while a sub-batch of another session is still to come in the tick.
C26_Witness == \E w \in Waiting : Len(work[w]) = 2 /\ \E i \in Range(Head(work[w])) : events[i].retry_count = 1

\* ------------------------------------------- a sub-batch without a session

\* Row i of tbl is what one markFailed makes of row i of base.
FailedFrom(base, tbl, i) == /\ tbl[i].retry_count = base[i].retry_count + 1 /\ tbl[i].status = (IF base[i].retry_count + 1 >= maxRetries THEN "failed" ELSE "pending") /\ tbl[i].observation_id = base[i].observation_id /\ tbl[i].summarized_at_epoch = base[i].summarized_at_epoch

\* The answer of getSessionById for the k-th of the sub-batches subs.
LookupOf(subs, lk, k) == lk[Len(subs) - k + 1]

\* The loop over subs, begun on table tbl, comes to the k-th sub-batch before
\* any await and finds its session record missing or without memory_session_id.
MeetsNoSession(subs, lk, k) == \A j \in 1..k : LookupOf(subs, lk, j) # "ok"

\* Every such sub-batch is failed by markFailed and is not among the
\* sub-batches whose LLM call the tick goes on to make.
NoSessionFails(tbl, subs) == \A lk \in Lookups(subs) : \A k \in 1..Len(subs) : MeetsNoSession(subs, lk, k) => LET r == summarizeUntilAwait(tbl, subs, lk, maxRetries) IN /\ (\A i \in Range(subs[k]) : FailedFrom(tbl, r.tbl, i)) /\ (\A n \in 1..Len(r.work) : r.work[n] # subs[k])

\* C27: when the session record of a sub-batch is missing or has no
\* memory_session_id, every event of the sub-batch is failed via markFailed,
\* no LLM call is made for it and nothing is stored for it: this holds for the
\* sub-batches a tick meets at its start and for those it meets after a call
\* has returned, and observations are stored only for events of the sub-batch
\* whose call was awaited.
C27_NoSessionFailsSubBatch ==
    /\ [](~isProcessing["w1"] => NoSessionFails(TickClaim("w1").tbl, groupBySession(TickClaim("w1").tbl, TickClaim("w1").batch)))
    /\ [](\A w \in Waiting : \A r \in Responses : NoSessionFails(AfterResponse(w, r, "ok"), Tail(work[w])))
    /\ [][\A i \in DOMAIN stored : stored'[i] # stored[i] => \E w \in Waiting : i \in Range(Head(work[w]))]_vars

\* C27 witness: pending events of two sessions, which an idle worker's tick
\* would claim as two sub-batches.
C27_Witness == ~isProcessing["w1"] /\ Len(groupBySession(TickClaim("w1").tbl, TickClaim("w1").batch)) = 2

\* C28: when storeObservations fails with a storage error, the events of the
\* sub-batch are not re-marked: they stay in summarizing with retry_count
\* unchanged (markFailed is not called on them), left for the stall release.
C28_StoreErrorLeavesRows == \A w \in Waiting : \A r \in Responses : Outcome(r, "throws").kind = "storeThrows" => \A i \in Range(Head(work[w])) : events[i].status = "summarizing" => AfterResponse(w, r, "throws")[i].status = "summarizing" /\ AfterResponse(w, r, "throws")[i].retry_count = events[i].retry_count

\* The observation ids the SessionStore returns for n observations.
AssignedIds(n) == [k \in 1..n |-> k]

\* C29: when the LLM succeeds and the store returns n >= 1 observation ids
\* for a sub-batch of m events, the event at position p (from 1, in batch
\* order) is marked completed with the id at position min(p, n): events
\* outnumbering the observations reuse the last id, and every event of the
\* sub-batch ends completed with an observation_id other than 0.
C29_ObservationIdMapping == \A w \in Waiting : \A r \in Responses : Outcome(r, "ok").kind = "stored" => LET sub == Head(work[w]) n == Outcome(r, "ok").n after == AfterResponse(w, r, "ok") IN /\ n = r.blocks /\ \A p \in 1..Len(sub) : /\ CompletedWith(after, sub[p], AssignedIds(n)[IF p < n THEN p ELSE n]) /\ after[sub[p]].observation_id # 0 /\ (p > n => after[sub[p]].observation_id = AssignedIds(n)[n])

\* C29 witness: a tick waits on the call of a sub-batch of two events on
\* their first attempt; one observation for them makes the events outnumber it.
C29_Witness == \E w \in Waiting : Len(Head(work[w])) = 2 /\ \A i \in Range(Head(work[w])) : events[i].retry_count = 0 /\ events[i].status = "summarizing"

\* ------------------------------------------------ stopping a worker's timer

\* The callback of setInterval in which claimBatchForSummarization throws.
TimerTickThrows(w) == interval[w] /\ processBatchThrows(w)

SummaryTimerTickThrows(w) == interval[w] /\ processSummaryBatchThrows(w)

\* The event worker "w1" and the summary worker "s1", started and stopped at
\* any moment; ticks come from the timers only, and no process is killed.
NextStop ==
    \/ InsertEventUpTo(1, MaxFairRows)
    \/ InsertRequestUpTo(1, MaxRequests)
    \/ AdvanceClock
    \/ start("w1")
    \/ stop("w1")
    \/ TimerTick("w1")
    \/ TimerTickThrows("w1")
    \/ \E res \in LLMResults : LLMReturn("w1", res)
    \/ startSummary("s1")
    \/ stopSummary("s1")
    \/ SummaryTimerTick("s1")
    \/ SummaryTimerTickThrows("s1")
    \/ \E res \in SummaryResults : SummaryLLMReturn("s1", res)

\* Every awaited LLM call settles (its deadline is timeoutMs).
CallsSettle ==
    /\ ([]<>(work["w1"] = <<>>) \/ []<><<\E res \in LLMResults : LLMReturn("w1", res)>>_vars)
    /\ ([]<>(work["s1"] = <<>>) \/ []<><<\E res \in SummaryResults : SummaryLLMReturn("s1", res)>>_vars)

SpecStop == InitTick /\ [][NextStop]_vars /\ CallsSettle

\* Row i of a table was handled by markCompleted or by markFailed in the step
\* from before to after.
Handled(before, after, i) == IF i \in DOMAIN after THEN after[i].status = "completed" \/ (after[i].retry_count = before[i].retry_count + 1 /\ after[i].status = (IF before[i].retry_count + 1 >= maxRetries THEN "failed" ELSE "pending")) ELSE FALSE

\* Worker w's timer is cleared in this step.
Stops(w) == interval[w] /\ ~interval'[w]

\* The rows of w's table in summarizing.
Summarizing(w) == {i \in DOMAIN TableOf(w) : TableOf(w)[i].status = "summarizing"}

\* C30: after stop() and until the next start() no tick of the worker begins
\* and it claims no row; stop() leaves a tick in progress and the rows it
\* holds as they are; that tick goes on to its end, and every row it claimed
\* gets its markCompleted or markFailed (completed, or failed / pending again
\* with one more retry counted), so no row is in summarizing without a tick
\* in progress that holds it.
C30_StopLetsTickFinish ==
    /\ [][\A w \in {"w1", "s1"} : ~interval[w] => ~BodyStarts(w) /\ ~ClaimsNow(w)]_vars
    /\ [][\A w \in {"w1", "s1"} : Stops(w) => work' = work /\ isProcessing' = isProcessing /\ TableOfNext(w) = TableOf(w)]_vars
    /\ [][\A w \in {"w1", "s1"} : \A i \in HeldIds(w) : i \notin UNION {Range(work'[w][k]) : k \in 1..Len(work'[w])} => Handled(TableOf(w), TableOfNext(w), i)]_vars
    /\ [](\A w \in {"w1", "s1"} : Summarizing(w) \subseteq HeldIds(w))
    /\ \A w \in {"w1", "s1"} : (isProcessing[w] /\ ~interval[w]) ~> (~isProcessing[w] /\ Summarizing(w) = {})

\* C30 witness: both workers were stopped while a tick of each waits on its
\* LLM call and holds the row it claimed.
C30_Witness == /\ ~interval["w1"] /\ isProcessing["w1"] /\ HeldIds("w1") # {} /\ Summarizing("w1") = HeldIds("w1") /\ ~interval["s1"] /\ isProcessing["s1"] /\ Summarizing("s1") = HeldIds("s1") /\ HeldIds("s1") # {}

\* ------------------------------------------------- materializing a summary

\* The summary worker "s1" over requests that carry a memory_session_id of
\* their own, or none.
NextMaterialize ==
    \/ \E s \in Sessions, m \in MemoryIds \cup {NULL} : InsertRequestWithCopy(s, m)
    \/ startSummary("s1")
    \/ stopSummary("s1")
    \/ SummaryTimerTick("s1")
    \/ \E res \in SummaryResults : SummaryLLMReturn("s1", res)

SpecMaterialize == InitTick /\ [][NextMaterialize]_vars

\* The summary workers waiting on the LLM call of a request.
SummaryWaiting == {w \in SummaryWorkers : work[w] # <<>>}

\* The request worker w is summarizing.
Current(w) == Head(work[w])[1]

\* The table after the call for w's request turned out as o.
AfterMaterialize(w, o) == summarizeRequest(requests, Current(w), [kind |-> o.kind, n |-> o.n], maxRetries, now)

\* Row i of tbl is what one markFailed makes of row i of requests.
RequestFailedOnce(tbl, i) == /\ tbl[i].retry_count = requests[i].retry_count + 1 /\ tbl[i].status = (IF requests[i].retry_count + 1 >= maxRetries THEN "failed" ELSE "pending") /\ tbl[i].summary_id = requests[i].summary_id /\ tbl[i].summarized_at_epoch = requests[i].summarized_at_epoch

\* C31: whenever the summary worker calls storeObservations it passes the
\* memory_session_id of the session record fetched then, whatever copy the
\* request carries; and when the record is missing or has no
\* memory_session_id, storeObservations is not called and the request gets
\* one markFailed.
C31_StoresUnderFetchedId == \A w \in SummaryWaiting : \A r \in Responses, rec \in SessionRecords, store \in StoreAnswers : LET o == materialize(requests[Current(w)].memory_session_id, r, rec, store) IN /\ (o.memorySessionId # NULL => rec.found /\ o.memorySessionId = rec.memory_session_id) /\ (o.kind = "stored" => o.memorySessionId # NULL) /\ ((~rec.found \/ rec.memory_session_id = NULL) => o.memorySessionId = NULL /\ o.kind # "stored" /\ RequestFailedOnce(AfterMaterialize(w, o), Current(w)))

\* C31 witness: the worker waits on the call of a request that carries a
\* memory_session_id (the record may hold another, or none).
C31_Witness == \E w \in SummaryWaiting : requests[Current(w)].memory_session_id \in MemoryIds /\ requests[Current(w)].status = "summarizing"

\* The response is one the parser extracts no summary from.
NoSummaryIn(r) == ~callOpenRouter(r).threw /\ ~parseSummary(callOpenRouter(r).content)

\* A request becomes completed in this step.
CompletedNow(i) == IF i \in DOMAIN requests THEN requests[i].status # "completed" /\ requests'[i].status = "completed" ELSE FALSE

\* C32: when the LLM answers and the parser extracts no summary, the request
\* gets one markFailed with the message "Failed to parse summary from LLM
\* response" (one retry consumed), storeObservations is not called, and the
\* request is not completed: completing is done only for the request whose
\* call has just returned, in the step that ends its handling, so a request
\* failed in a tick is not completed later in that tick.
C32_ParseFailureFailsRequest ==
    /\ [](\A w \in SummaryWaiting : \A r \in Responses, rec \in SessionRecords, store \in StoreAnswers : NoSummaryIn(r) => LET o == materialize(requests[Current(w)].memory_session_id, r, rec, store) IN /\ o.message = "Failed to parse summary from LLM response" /\ o.memorySessionId = NULL /\ RequestFailedOnce(AfterMaterialize(w, o), Current(w)) /\ AfterMaterialize(w, o)[Current(w)].status # "completed")
    /\ [][\A i \in DOMAIN requests' : CompletedNow(i) => \E w \in SummaryWaiting : i = Current(w) /\ i \notin HeldIds(w)']_vars

\* C32 witness: the worker waits on the call of a request that has already
\* failed once, with a second request claimed by the same tick behind it.
C32_Witness == \E w \in SummaryWaiting : Len(work[w]) = 2 /\ requests[Current(w)].retry_count = 1 /\ requests[Current(w)].status = "summarizing"

\* ------------------------------------------------- the grouping of a batch

\* claimBatchForSummarization(lim) and groupBySession as processBatch calls
\* them, for a worker constructed with batchSize = lim.
ClaimAndGroup(w, lim) ==
    /\ ~isProcessing[w]
    /\ LET c == claimBatchForSummarization(events, lim)
       IN  /\ events' = c.tbl
           /\ work' = [work EXCEPT ![w] = groupBySession(c.tbl, c.batch)]
           /\ isProcessing' = [isProcessing EXCEPT ![w] = c.batch # <<>>]
    /\ UNCHANGED <<nextId, now, maxRetries, interval, batchCounter, stored, failTicks, requests, reqNextId, procs, trackedProcesses, term, scan>>

\* Events of two sessions queued at any time, and two workers that each
\* claim and group one batch of any size.
NextGroup ==
    \/ \E s \in Sessions : InsertEventUpTo(s, MaxClaimRows)
    \/ AdvanceClock
    \/ \E w \in Workers, lim \in 1..MaxClaimRows : ClaimAndGroup(w, lim)

SpecGroup == Init /\ [][NextGroup]_vars

\* The positions of event i in the sub-batches.
Places(subs, i) == {<<k, p>> \in (1..Len(subs)) \X (1..MaxClaimRows) : IF p <= Len(subs[k]) THEN subs[k][p] = i ELSE FALSE}

NextIsolation ==
    \/ \E s \in Sessions : InsertEvent(s)
    \/ InsertRequest(1)
    \/ forceProcess("w1")
    \/ \E res \in LLMResults : LLMReturn("w1", res)
    \/ forceProcessSummary("s1")
    \/ \E res \in SummaryResults : SummaryLLMReturn("s1", res)

SpecIsolation == Init /\ [][NextIsolation]_vars

\* Row i of after is row i of before with one markFailed applied.
OneMarkFailed(before, after, i) == after[i].retry_count = before[i].retry_count + 1 /\ after[i].status = (IF before[i].retry_count + 1 >= maxRetries THEN "failed" ELSE "pending")

\* The rows worker w holds after the step.
HeldNext(w) == UNION {Range(work'[w][k]) : k \in 1..Len(work'[w])}

\* The rows of the sub-batch, or the request, whose call worker w awaits.
HeadRows(w) == IF work[w] = <<>> THEN {} ELSE Range(Head(work[w]))

\* C34: whatever the call of a sub-batch (of a request) turns out to be, it
\* changes the rows of that sub-batch (that request) only; the tick then
\* goes on: each other row it holds is still held for its own call, or has
\* had the markFailed of its own missing session record; and a sub-batch or
\* request reached later in the tick completes when its own call, parse and
\* store succeed.
C34_FailureIsolation ==
    /\ [](\A w \in Waiting : \A r \in Responses, store \in {"ok", "throws"} : \A i \in DOMAIN events \ HeadRows(w) : AfterResponse(w, r, store)[i] = events[i])
    /\ [](\A w \in SummaryWaiting : \A o \in Materializations : \A i \in DOMAIN requests \ {Current(w)} : AfterMaterialize(w, o)[i] = requests[i])
    /\ [][\A i \in HeldIds("w1") \ HeadRows("w1") : i \in HeldNext("w1") \/ OneMarkFailed(events, events', i)]_vars
    /\ [][\A i \in HeldIds("s1") \ HeadRows("s1") : i \in HeldNext("s1") /\ requests'[i] = requests[i]]_vars
    /\ [](\A w \in Waiting : \A r \in Responses : Outcome(r, "ok").kind = "stored" => \A i \in HeadRows(w) : AfterResponse(w, r, "ok")[i].status = "completed")
    /\ [](\A w \in SummaryWaiting : \A o \in Materializations : o.kind = "stored" => AfterMaterialize(w, o)[Current(w)].status = "completed")

\* C34 witness: in one tick of each worker the first sub-batch (request) has
\* failed and is pending again with one retry counted, and the tick waits on
\* the call of the second.
C34_Witness == /\ work["w1"] = <<<<2>>>> /\ events[1].status = "pending" /\ events[1].retry_count = 1 /\ events[2].status = "summarizing" /\ work["s1"] = <<<<2>>>> /\ requests[1].status = "pending" /\ requests[1].retry_count = 1 /\ requests[2].status = "summarizing"

\* The statuses a tick moves a claimed row to.
Moved == {"completed", "pending", "failed"}

\* A tick of worker w ends in this step.
TickEnds(w) == (isProcessing[w] \/ BodyStarts(w)) /\ ~isProcessing'[w]

\* The batch a tick of w claims when it starts in this step.
ClaimedAtStart(w) == IF isProcessing[w] \/ ~BodyStarts(w) THEN {} ELSE IF w \in Workers THEN Range(TickClaim(w).batch) ELSE Range(claimRequestsForSummarization(periodicRelease(requests, batchCounter[w] + 1), batchSize).batch)

\* C35: with no queue-store operation throwing, a tick leaves none of the
\* rows it claimed in summarizing: a row leaves the tick's hands only moved
\* to completed, pending or failed, a tick that ends holds no row any more
\* (one that ends in the step it began has moved every row it claimed), and
\* so no row of the table is in summarizing unless a tick in progress holds it.
C35_TickLeavesNoneSummarizing ==
    /\ [][\A w \in {"w1", "s1"} : \A i \in (HeldIds(w) \cup ClaimedAtStart(w)) \ HeldNext(w) : TableOfNext(w)[i].status \in Moved]_vars
    /\ [][\A w \in {"w1", "s1"} : TickEnds(w) => HeldNext(w) = {} /\ \A i \in DOMAIN TableOfNext(w) : TableOfNext(w)[i].status # "summarizing"]_vars
    /\ [](\A w \in {"w1", "s1"} : \A i \in DOMAIN TableOf(w) : TableOf(w)[i].status = "summarizing" <=> i \in HeldIds(w))

\* C35 witness: ticks of both workers have ended; the event worker's claimed
\* two events of two sessions, of which one is completed and the other
\* pending again with a retry counted.
C35_Witness == /\ ~isProcessing["w1"] /\ ~isProcessing["s1"] /\ 2 \in DOMAIN events /\ events[1].session_db_id # events[2].session_db_id /\ events[1].status = "completed" /\ events[2].status = "pending" /\ events[2].retry_count = 1 /\ failTicks[1] = 0 /\ 1 \in DOMAIN requests /\ requests[1].status = "completed"

\* The periodic release runs in this step: a tick body of w begins and its
\* count is a multiple of staleCheckEveryNBatches.
PeriodicReleaseRuns(w) == BodyStarts(w) /\ (batchCounter[w] + 1) % staleCheckEveryNBatches = 0

\* Request i goes from summarizing back to pending as a release does it:
\* nothing else of the row changes.
Reverted(i) == IF i \in DOMAIN requests THEN requests[i].status = "summarizing" /\ requests'[i] = [requests[i] EXCEPT !.status = "pending"] ELSE FALSE

\* C36: the periodic releaseStuckRequests of the summary worker runs only
\* at the beginning of a tick body, which the guard lets begin only when no
\* tick of that worker is in progress: when it runs the worker holds no
\* request, and a request held by a tick in progress is reverted to pending
\* by no step of that worker other than its start().
C36_PeriodicReleaseSparesOwnTick ==
    /\ [][\A w \in SummaryWorkers : PeriodicReleaseRuns(w) => ~isProcessing[w] /\ HeldIds(w) = {}]_vars
    /\ [][\A w \in SummaryWorkers : \A i \in HeldIds(w) : Reverted(i) => ~interval[w] /\ interval'[w]]_vars

\* C36 witness: the timer is set, a tick holds a request in summarizing, a
\* second request is pending, and the next tick body would be one that runs
\* the periodic release.
C36_Witness == \E w \in SummaryWaiting : /\ interval[w] /\ (batchCounter[w] + 1) % staleCheckEveryNBatches = 0 /\ requests[Current(w)].status = "summarizing" /\ \E j \in DOMAIN requests : requests[j].status = "pending"

\* ------------------------------------------------- the garbage collection

\* One event worker that is never killed, its ticks from the timer or from
\* forceProcess, with ticks whose claim throws.
NextCleanup ==
    \/ InsertEvent(1)
    \/ AdvanceClock
    \/ start("w1")
    \/ TimerTick("w1")
    \/ TimerTickThrows("w1")
    \/ forceProcess("w1")
    \/ \E res \in LLMResults : LLMReturn("w1", res)

SpecCleanup == InitTick /\ [][NextCleanup]_vars

\* A tick body of w begins in this step and is a cleanupEveryNBatches-th one.
CleanupRuns(w) == ~isProcessing[w] /\ BodyStarts(w) /\ (batchCounter[w] + 1) % cleanupEveryNBatches = 0

\* The rows deleted in this step.
Deleted == DOMAIN events \ DOMAIN events'

\* The completed rows whose summarized_at_epoch is older than now minus the
\* retention window.
Expired == {i \in DOMAIN events : events[i].status = "completed" /\ events[i].summarized_at_epoch < now - completedRetentionMs}

\* C37: the worker deletes rows only in the tick bodies whose count is a
\* multiple of cleanupEveryNBatches (ticks that return at the guard are not
\* counted), such a tick body deletes exactly the completed rows whose
\* summarized_at_epoch is older than now minus completedRetentionMs, and a
\* completed row younger than that is deleted in no step.
C37_CleanupEveryNthTick ==
    /\ [][Deleted # {} => CleanupRuns("w1")]_vars
    /\ [][CleanupRuns("w1") => Deleted = Expired]_vars
    /\ [][BodyStarts("w1") /\ ~CleanupRuns("w1") => Deleted = {}]_vars
    /\ [][\A i \in DOMAIN events : (events[i].status = "completed" /\ events[i].summarized_at_epoch >= now - completedRetentionMs) => i \in DOMAIN events']_vars

\* C37 witness: a cleanup has deleted the first row, and a row completed
\* exactly one retention window ago is still there after a cleanup tick.
C37_Witness == /\ nextId > 2 /\ 1 \notin DOMAIN events /\ 2 \in DOMAIN events /\ events[2].status = "completed" /\ events[2].summarized_at_epoch = now - completedRetentionMs /\ batchCounter["w1"] = 0 /\ ~isProcessing["w1"]

\* ----------------------------------------------- insertRaw's tool_response

\* insertRaw called with a tool_response.
InsertRawWithResponse(s, d) ==
    /\ nextId <= MaxRows
    /\ events' = [i \in DOMAIN events \cup {nextId} |-> IF i = nextId THEN [NewRow(s, now) EXCEPT !.tool_response = truncatedResponse(d, maxResponseLength), !.given = d] ELSE events[i]]
    /\ nextId' = nextId + 1
    /\ stored' = [i \in 1..nextId |-> IF i = nextId THEN 0 ELSE stored[i]]
    /\ failTicks' = [i \in 1..nextId |-> IF i = nextId THEN 0 ELSE failTicks[i]]
    /\ UNCHANGED <<now, maxRetries, interval, isProcessing, batchCounter, work, requests, reqNextId, procs, trackedProcesses, term, scan>>

NextInsert ==
    \/ \E s \in Sessions, d \in ToolResponses : InsertRawWithResponse(s, d)
    \/ AdvanceClock

SpecInsert == Init /\ [][NextInsert]_vars

\* The last n elements of a sequence.
Suffix(x, n) == SubSeq(x, Len(x) - n + 1, Len(x))

\* The row stores the serialized tool_response it was given, cut at the cap.
StoredAsClaimed(row) == LET r == responseStr(row.given) IN IF Len(r) <= maxResponseLength THEN row.tool_response = Text(r) ELSE /\ ~row.tool_response.null /\ Len(row.tool_response.str) = maxResponseLength + Len(TruncationMarker) /\ SubSeq(row.tool_response.str, 1, maxResponseLength) = SubSeq(r, 1, maxResponseLength) /\ Suffix(row.tool_response.str, Len(TruncationMarker)) = TruncationMarker

\* C38: a row inserted with a tool_response whose serialization has length L
\* stores it unchanged when L <= cap, and otherwise its first cap characters
\* followed by the truncation marker (length cap + length of the marker).
C38_TruncationAtCap == \A i \in DOMAIN events : events[i].given # NotGiven => StoredAsClaimed(events[i])

\* The same for the tool_response values JavaScript takes for true.
TruthyResponseStoredAtCap == \A i \in DOMAIN events : Truthy(events[i].given) => StoredAsClaimed(events[i])

====
